---------------------------- MODULE Spec2Model ----------------------------
(***************************************************************************)
(* Model of maidsafe sentinel: the signature-quorum PureSentinel           *)
(* (pure_sentinel.rs) with its claim accumulator (the accumulator whose    *)
(* in-repository twin is refresh_sentinel.rs), the KeyStore (key_store.rs) *)
(* and the Frequency counter (statistics.rs).                              *)
(*                                                                         *)
(* Values.  Names and public keys are small naturals (both are totally     *)
(* ordered in the source).  A Signature is the pair (key whose secret half *)
(* signed, bytes that were signed); verify_detached accepts exactly when   *)
(* the public key and the bytes are the ones of the signature.  A Request  *)
(* is the test type TestRequest {core, name}; get_source() is its name.    *)
(* Option values are sequences: None is <<>>, Some(x) is <<x>>.            *)
(*                                                                         *)
(* The LRU containers hold 1000 entries in the source; the model scales    *)
(* the capacities down so that eviction happens within its universes.      *)
(***************************************************************************)
EXTENDS Naturals, Integers, Sequences, FiniteSets, TLC

\* claim_accumulator, key_store: the fields of a PureSentinel, or the object
\*   taken on its own; sibling: a Sentinel of sentinel.rs or account_sentinel.rs,
\*   a KeySentinel, or a second PureSentinel; frequency: a Frequency or a
\*   FrequencyKeyValue; last: the last call and what it returned; script: the
\*   progress of a scripted run, or what a run was fed so far
VARIABLES claim_accumulator, key_store, last, script, sibling, frequency

vars == <<claim_accumulator, key_store, last, script, sibling, frequency>>

(***************************************************************************)
(* Bounds of the model and scaled program constants                        *)
(***************************************************************************)
\* largest quorum_size handed to add_claim / add_keys
MaxQuorum == 2
\* most submissions held by the claim accumulator over all Requests
MaxClaims == 2
\* most attestations the KeyStore holds before a further add_keys call
MaxAttestations == 3
\* most values one key of the accumulator holds before a further add
MaxValues == 3
\* most verified claims handed to squash taken on its own
MaxVerified == 4
\* most calls made on the two sentinels that run side by side
MaxCalls == 4
\* most update calls made on one Frequency or FrequencyKeyValue
MaxUpdates == 4
\* capacity of the accumulator's LruCache (1000 in the source): with one live
\* Request every add_claim for another Request evicts the pending one
MAX_REQUEST_COUNT == 1
\* capacity of the KeyStore's LruCache (1000 in the source)
NAME_CAPACITY == 4
\* capacity of the LruCache of the accumulator taken on its own (1000 in the
\* source): two live keys, so that the eviction has a choice to make
AccCapacity == 2

None == <<>>
Some(x) == <<x>>
IsSome(o) == o # <<>>
Unwrap(o) == o[1]

Range(s) == {s[i] : i \in DOMAIN s}

\* s without its elements equal to x
RECURSIVE SeqWithout(_, _)
SeqWithout(s, x) ==
    IF s = <<>> THEN <<>>
    ELSE IF Head(s) = x THEN SeqWithout(Tail(s), x)
         ELSE <<Head(s)>> \o SeqWithout(Tail(s), x)

\* the function f without the key k
MapWithout(f, k) == [x \in (DOMAIN f) \ {k} |-> f[x]]

\* the function f with k bound to v
MapWith(f, k, v) == [x \in (DOMAIN f) \cup {k} |-> IF x = k THEN v ELSE f[x]]

\* ascending enumeration of a finite set of naturals (BTreeMap iteration order)
RECURSIVE Ascending(_)
Ascending(S) ==
    IF S = {} THEN <<>>
    ELSE LET m == CHOOSE x \in S : \A y \in S : x <= y
         IN  <<m>> \o Ascending(S \ {m})

(***************************************************************************)
(* LruCache: list holds the keys, least recently used first                *)
(***************************************************************************)
\* the map with no key
EmptyMap == [x \in {} |-> 0]

LruNew(capacity) == [capacity |-> capacity, list |-> <<>>, map |-> EmptyMap]

LruCheck(c, k) == k \in DOMAIN c.map

LruLen(c) == Len(c.list)

\* get: a hit moves the key to the most-recent end
LruTouch(c, k) ==
    IF LruCheck(c, k)
    THEN [c EXCEPT !.list = Append(SeqWithout(c.list, k), k)]
    ELSE c

LruRemove(c, k) ==
    [c EXCEPT !.list = SeqWithout(c.list, k), !.map = MapWithout(c.map, k)]

\* the cache with k bound to v as its most recently used entry
LruPut(c, k, v) ==
    [c EXCEPT !.list = Append(SeqWithout(c.list, k), k), !.map = MapWith(c.map, k, v)]

\* add: a new key in a full cache first drops the least recently used entry
LruAdd(c, k, v) ==
    IF ~ LruCheck(c, k) /\ Len(c.list) >= c.capacity /\ c.list # <<>>
    THEN LruPut(LruRemove(c, Head(c.list)), k, v)
    ELSE LruPut(c, k, v)

(***************************************************************************)
(* Accumulator (refresh_sentinel.rs)                                       *)
(***************************************************************************)
AccumulatorNew(quorum) ==
    [quorum |-> quorum, storage |-> LruNew(MAX_REQUEST_COUNT)]

\* variant: every key counts as seen before
contains_key_always(acc, key) == TRUE

\* variant: no key counts as seen before
contains_key_never(acc, key) == FALSE

contains_key(acc, key) == LruCheck(acc.storage, key)

set_quorum(acc, quorum) == [acc EXCEPT !.quorum = quorum]

\* is_quorum_reached looks the entry up with storage.get, which touches it
is_quorum_reached(acc, key) ==
    [acc |-> [acc EXCEPT !.storage = LruTouch(acc.storage, key)],
     ret |-> LruCheck(acc.storage, key) /\ Len(acc.storage.map[key]) >= acc.quorum]

\* variant: the entry is put back without making room for it
AccAddUnbounded(acc, key, value) ==
    IF ~ LruCheck(acc.storage, key)
    THEN [acc |-> [acc EXCEPT !.storage = LruPut(acc.storage, key, <<value>>)],
          ret |-> IF acc.quorum = 1 THEN Some(<<key, <<value>>>>) ELSE None]
    ELSE [acc |-> [acc EXCEPT !.storage =
                       LruPut(acc.storage, key, Append(acc.storage.map[key], value))],
          ret |-> IF Len(acc.storage.map[key]) + 1 >= acc.quorum
                  THEN Some(<<key, Append(acc.storage.map[key], value)>>)
                  ELSE None]

\* variant: a value equal to one already stored for the key is not stored again
AccAddOnce(acc, key, value) ==
    IF ~ LruCheck(acc.storage, key)
    THEN [acc |-> [acc EXCEPT !.storage = LruAdd(LruRemove(acc.storage, key), key, <<value>>)],
          ret |-> IF acc.quorum = 1 THEN Some(<<key, <<value>>>>) ELSE None]
    ELSE IF value \in Range(acc.storage.map[key])
         THEN [acc |-> [acc EXCEPT !.storage =
                            LruAdd(LruRemove(acc.storage, key), key, acc.storage.map[key])],
               ret |-> IF Len(acc.storage.map[key]) >= acc.quorum
                       THEN Some(<<key, acc.storage.map[key]>>)
                       ELSE None]
         ELSE [acc |-> [acc EXCEPT !.storage =
                            LruAdd(LruRemove(acc.storage, key), key,
                                   Append(acc.storage.map[key], value))],
               ret |-> IF Len(acc.storage.map[key]) + 1 >= acc.quorum
                       THEN Some(<<key, Append(acc.storage.map[key], value)>>)
                       ELSE None]

\* add returns the new accumulator and Some(<<key, values>>) or None
AccAdd(acc, key, value) ==
    IF ~ LruCheck(acc.storage, key)
    THEN [acc |-> [acc EXCEPT !.storage = LruAdd(LruRemove(acc.storage, key), key, <<value>>)],
          ret |-> IF acc.quorum = 1 THEN Some(<<key, <<value>>>>) ELSE None]
    ELSE [acc |-> [acc EXCEPT !.storage =
                       LruAdd(LruRemove(acc.storage, key), key,
                              Append(acc.storage.map[key], value))],
          ret |-> IF Len(acc.storage.map[key]) + 1 >= acc.quorum
                  THEN Some(<<key, Append(acc.storage.map[key], value)>>)
                  ELSE None]

\* variant: the lookup does not touch the entry
AccGetWithoutTouch(acc, key) ==
    [acc |-> acc,
     ret |-> IF LruCheck(acc.storage, key)
             THEN Some(<<key, acc.storage.map[key]>>)
             ELSE None]

AccGet(acc, key) ==
    [acc |-> [acc EXCEPT !.storage = LruTouch(acc.storage, key)],
     ret |-> IF LruCheck(acc.storage, key)
             THEN Some(<<key, acc.storage.map[key]>>)
             ELSE None]

\* variant: the entry stays
AccDeleteNothing(acc, key) == acc

\* variant: every entry goes
AccDeleteAll(acc, key) == [acc EXCEPT !.storage = LruNew(acc.storage.capacity)]

AccDelete(acc, key) == [acc EXCEPT !.storage = LruRemove(acc.storage, key)]

(***************************************************************************)
(* KeyStore (key_store.rs): cache maps target -> key -> set of senders     *)
(***************************************************************************)
KeyStoreNew(quorum_size) ==
    [quorum_size |-> quorum_size, cache |-> LruNew(NAME_CAPACITY)]

\* the key map of target, empty when target is new
KeysOf(ks, target) ==
    IF LruCheck(ks.cache, target) THEN ks.cache.map[target] ELSE EmptyMap

\* the senders recorded for key in keys
SendersOf(keys, key) == IF key \in DOMAIN keys THEN keys[key] ELSE {}

\* variant: a sender already recorded for the key is taken out again
InsertSenderOrRetract(ks, target, sender, key, keys) ==
    [ks EXCEPT !.cache = LruAdd(ks.cache, target,
                                MapWith(keys, key,
                                        IF sender \in SendersOf(keys, key)
                                        THEN SendersOf(keys, key) \ {sender}
                                        ELSE SendersOf(keys, key) \cup {sender}))]

\* variant: a new target never makes another one leave
InsertSenderUnbounded(ks, target, sender, key, keys) ==
    [ks EXCEPT !.cache = LruPut(ks.cache, target,
                                MapWith(keys, key, SendersOf(keys, key) \cup {sender}))]

\* cache.entry(target).or_insert_with(new_map).entry(key).or_insert_with(new_set).insert(sender)
InsertSender(ks, target, sender, key, keys) ==
    [ks EXCEPT !.cache = LruAdd(ks.cache, target,
                                MapWith(keys, key, SendersOf(keys, key) \cup {sender}))]

\* variant: without the "no self signing" return
add_key_self_signing(ks, target, sender, key) ==
    InsertSender(ks, target, sender, key, KeysOf(ks, target))

add_key(ks, target, sender, key) ==
    IF target = sender THEN ks
    ELSE InsertSender(ks, target, sender, key, KeysOf(ks, target))

\* variant: a key needs more than quorum senders
pick_where_quorum_exceeded(keys, quorum) ==
    Ascending({key \in DOMAIN keys : Cardinality(keys[key]) > quorum})

pick_where_quorum_reached(keys, quorum) ==
    Ascending({key \in DOMAIN keys : Cardinality(keys[key]) >= quorum})

\* quorum_size is None or Some(n); the lookup touches the cache
get_accumulated_keys(ks, target, quorum_size) ==
    [ks  |-> [ks EXCEPT !.cache = LruTouch(ks.cache, target)],
     ret |-> IF LruCheck(ks.cache, target)
             THEN pick_where_quorum_reached(
                      ks.cache.map[target],
                      IF IsSome(quorum_size) THEN Unwrap(quorum_size) ELSE ks.quorum_size)
             ELSE <<>>]

(***************************************************************************)
(* Frequency (statistics.rs): map is a sequence of <<key, count>>          *)
(***************************************************************************)
FrequencyNew == <<>>

\* variant: every update pushes a new entry
FrequencyUpdateFresh(map, key) == Append(map, <<key, 1>>)

RECURSIVE FrequencyUpdate(_, _)
FrequencyUpdate(map, key) ==
    IF map = <<>> THEN <<<<key, 1>>>>
    ELSE IF Head(map)[1] = key
         THEN <<<<key, Head(map)[2] + 1>>>> \o Tail(map)
         ELSE <<Head(map)>> \o FrequencyUpdate(Tail(map), key)

\* variant: e goes before the entries of equal count
RECURSIVE InsertBeforeEquals(_, _)
InsertBeforeEquals(sorted, e) ==
    IF sorted = <<>> THEN <<e>>
    ELSE IF Head(sorted)[2] > e[2]
         THEN <<Head(sorted)>> \o InsertBeforeEquals(Tail(sorted), e)
         ELSE <<e>> \o sorted

\* insert e into a sequence sorted by descending count, after its equals
RECURSIVE InsertByHighest(_, _)
InsertByHighest(sorted, e) ==
    IF sorted = <<>> THEN <<e>>
    ELSE IF Head(sorted)[2] >= e[2]
         THEN <<Head(sorted)>> \o InsertByHighest(Tail(sorted), e)
         ELSE <<e>> \o sorted

\* stable sort by descending count
RECURSIVE sort_by_highest(_)
sort_by_highest(map) ==
    IF map = <<>> THEN <<>>
    ELSE InsertByHighest(sort_by_highest(SubSeq(map, 1, Len(map) - 1)), map[Len(map)])

(***************************************************************************)
(* FrequencyKeyValue (statistics.rs): map is a sequence of                 *)
(* <<key, sequence of <<value, count>>, highest count of a value>>         *)
(***************************************************************************)
FrequencyKeyValueNew == <<>>

\* the count stored for value in values, 0 when it is not there
CountOf(values, value) ==
    IF \E i \in DOMAIN values : values[i][1] = value
    THEN values[CHOOSE i \in DOMAIN values : values[i][1] = value][2]
    ELSE 0

Max(a, b) == IF a >= b THEN a ELSE b

\* variant: the highest count of the key is left as it was
UpdateStoredKeyKeepingMax(stored_key, value) ==
    <<stored_key[1], FrequencyUpdate(stored_key[2], value), stored_key[3]>>

\* the entry of a key that is updated with value
UpdateStoredKey(stored_key, value) ==
    <<stored_key[1],
      FrequencyUpdate(stored_key[2], value),
      IF CountOf(stored_key[2], value) > 0
      THEN Max(stored_key[3], CountOf(stored_key[2], value) + 1)
      ELSE stored_key[3]>>

RECURSIVE FrequencyKeyValueUpdate(_, _, _)
FrequencyKeyValueUpdate(map, key, value) ==
    IF map = <<>> THEN <<<<key, <<<<value, 1>>>>, 1>>>>
    ELSE IF Head(map)[1] = key
         THEN <<UpdateStoredKey(Head(map), value)>> \o Tail(map)
         ELSE <<Head(map)>> \o FrequencyKeyValueUpdate(Tail(map), key, value)

\* insert e into a sequence sorted by descending highest count, after its equals
RECURSIVE InsertByHighestOfKey(_, _)
InsertByHighestOfKey(sorted, e) ==
    IF sorted = <<>> THEN <<e>>
    ELSE IF Head(sorted)[3] >= e[3]
         THEN <<Head(sorted)>> \o InsertByHighestOfKey(Tail(sorted), e)
         ELSE <<e>> \o sorted

\* FrequencyKeyValue::sort_by_highest: stable sort by descending highest count
RECURSIVE FrequencyKeyValueSortByHighest(_)
FrequencyKeyValueSortByHighest(map) ==
    IF map = <<>> THEN <<>>
    ELSE InsertByHighestOfKey(FrequencyKeyValueSortByHighest(SubSeq(map, 1, Len(map) - 1)),
                              map[Len(map)])

(***************************************************************************)
(* Signatures (lib.rs) and the Request's source                            *)
(***************************************************************************)
\* sign_detached(body, secret half of key)
Sign(key, body) == [key |-> key, body |-> body]

\* variant: the signed bytes are not compared with the claim
verify_signature_any_body(signature, public_key, claim) ==
    IF signature.key = public_key THEN Some(claim) ELSE None

\* Some(claim) when the signature verifies under public_key over claim
verify_signature(signature, public_key, claim) ==
    IF signature.key = public_key /\ signature.body = claim
    THEN Some(claim)
    ELSE None

get_source(request) == request.name

(***************************************************************************)
(* PureSentinel (pure_sentinel.rs); ps = [claim_accumulator, key_store].   *)
(* Every operation returns the new state with its return value; the        *)
(* intermediate values of the code are handed on as operator arguments.    *)
(***************************************************************************)
PureSentinelNew ==
    [claim_accumulator |-> AccumulatorNew(0), key_store |-> KeyStoreNew(0)]

\* index of the first key of keys that verifies the signature, 0 when none
FirstVerifying(keys, signature, body) ==
    IF \E i \in DOMAIN keys : IsSome(verify_signature(signature, keys[i], body))
    THEN CHOOSE i \in DOMAIN keys :
             /\ IsSome(verify_signature(signature, keys[i], body))
             /\ \A j \in 1..(i - 1) : ~ IsSome(verify_signature(signature, keys[j], body))
    ELSE 0

\* the loop of verify_single_claim over the keys g.ret, hit being the first
\* key that verifies; used are the keys tried
VerifiedBy(g, hit, name, signature, body) ==
    [ks   |-> g.ks,
     ret  |-> IF hit = 0 THEN None ELSE verify_signature(signature, g.ret[hit], body),
     used |-> {<<name, g.ret[i]>> : i \in 1..(IF hit = 0 THEN Len(g.ret) ELSE hit)}]

VerifyWithKeys(g, name, signature, body) ==
    VerifiedBy(g, FirstVerifying(g.ret, signature, body), name, signature, body)

\* ret is Some(body) or None
verify_single_claim(ks, name, signature, body, quorum_size) ==
    VerifyWithKeys(get_accumulated_keys(ks, name, Some(quorum_size)),
                   name, signature, body)

\* variant: the body of a verified claim is recorded twice
VerifyJoinTwice(one, rest) ==
    [ks |-> rest.ks, ret |-> one.ret \o one.ret \o rest.ret, used |-> one.used \cup rest.used]

VerifyJoin(one, rest) ==
    [ks |-> rest.ks, ret |-> one.ret \o rest.ret, used |-> one.used \cup rest.used]

\* ret is the sequence of verified bodies, in the order of the claims
RECURSIVE verify(_, _, _)
VerifyRest(one, claims, quorum_size) ==
    VerifyJoin(one, verify(one.ks, claims, quorum_size))

verify(ks, claims, quorum_size) ==
    IF claims = <<>> THEN [ks |-> ks, ret |-> <<>>, used |-> {}]
    ELSE VerifyRest(verify_single_claim(ks, Head(claims)[1], Head(claims)[2],
                                        Head(claims)[3], quorum_size),
                    Tail(claims), quorum_size)

RECURSIVE FrequencyOf(_)
FrequencyOf(values) ==
    IF values = <<>> THEN FrequencyNew
    ELSE FrequencyUpdate(FrequencyOf(SubSeq(values, 1, Len(values) - 1)),
                         values[Len(values)])

\* the values of a sorted frequency whose count reaches quorum_size
RECURSIVE FilterCount(_, _)
FilterCount(sorted, quorum_size) ==
    IF sorted = <<>> THEN <<>>
    ELSE IF Head(sorted)[2] >= quorum_size
         THEN <<Head(sorted)[1]>> \o FilterCount(Tail(sorted), quorum_size)
         ELSE FilterCount(Tail(sorted), quorum_size)

\* iter.next() with the two debug_assert!s: asserts tells whether both hold
SquashNext(iter) ==
    [ret     |-> IF iter = <<>> THEN None ELSE Some(Head(iter)),
     asserts |-> Len(iter) = 1]

\* variant: the most frequent body is taken whatever its count
squash_most_frequent(verified_claims, quorum_size) ==
    IF Len(verified_claims) < quorum_size
    THEN [ret |-> None, asserts |-> TRUE]
    ELSE SquashNext(FilterCount(sort_by_highest(FrequencyOf(verified_claims)), 0))

\* ret is Some(body) or None
squash(verified_claims, quorum_size) ==
    IF Len(verified_claims) < quorum_size
    THEN [ret |-> None, asserts |-> TRUE]
    ELSE SquashNext(FilterCount(sort_by_highest(FrequencyOf(verified_claims)),
                                quorum_size))

\* the closure of resolve: on Some(c) delete the Request and return it with c
Resolved(ps, request, v, s) ==
    [ps       |-> [claim_accumulator |->
                       IF IsSome(s.ret)
                       THEN AccDelete(ps.claim_accumulator, request)
                       ELSE ps.claim_accumulator,
                   key_store |-> v.ks],
     ret      |-> IF IsSome(s.ret) THEN Some(<<request, Unwrap(s.ret)>>) ELSE None,
     verified |-> v.ret,
     used     |-> v.used,
     asserts  |-> s.asserts]

\* variant: the resolved Request stays in the claim accumulator
ResolvedWithoutDelete(ps, request, v, s) ==
    [ps       |-> [claim_accumulator |-> ps.claim_accumulator, key_store |-> v.ks],
     ret      |-> IF IsSome(s.ret) THEN Some(<<request, Unwrap(s.ret)>>) ELSE None,
     verified |-> v.ret,
     used     |-> v.used,
     asserts  |-> s.asserts]

Squashed(ps, request, v, quorum_size) ==
    Resolved(ps, request, v, squash(v.ret, quorum_size))

SquashedWithoutDelete(ps, request, v, quorum_size) ==
    ResolvedWithoutDelete(ps, request, v, squash(v.ret, quorum_size))

\* variant: the resolved Request stays in the claim accumulator
resolve_without_delete(ps, request, claims, quorum_size) ==
    SquashedWithoutDelete(ps, request, verify(ps.key_store, claims, quorum_size),
                          quorum_size)

resolve(ps, request, claims, quorum_size) ==
    Squashed(ps, request, verify(ps.key_store, claims, quorum_size), quorum_size)

\* what a call that never reached resolve reports
NotResolved(ps) ==
    [ps |-> ps, ret |-> None, verified |-> <<>>, used |-> {}, asserts |-> TRUE]

\* and_then(resolve): snapshot is None or Some(<<request, claims>>)
AndThenResolve(ps, snapshot, quorum_size) ==
    IF IsSome(snapshot)
    THEN resolve(ps, Unwrap(snapshot)[1], Unwrap(snapshot)[2], quorum_size)
    ELSE NotResolved(ps)

\* map(Resolved) / or_else(RequestKeys when saw_first_time) of add_claim
AddClaimResult(saw_first_time, request, added, r) ==
    [ps       |-> r.ps,
     ret      |-> IF IsSome(r.ret)
                  THEN Some(<<"Resolved", Unwrap(r.ret)[1], Unwrap(r.ret)[2]>>)
                  ELSE IF saw_first_time
                       THEN Some(<<"RequestKeys", get_source(request)>>)
                       ELSE None,
     known    |-> ~ saw_first_time,
     claims   |-> added.acc.storage.map[request],
     snapshot |-> IsSome(added.ret),
     verified |-> r.verified,
     used     |-> r.used,
     asserts  |-> r.asserts]

AddClaimAdded(saw_first_time, key_store_, request, added, quorum_size) ==
    AddClaimResult(saw_first_time, request, added,
                   AndThenResolve([claim_accumulator |-> added.acc,
                                   key_store |-> key_store_],
                                  added.ret, quorum_size))

\* variant: the quorum of the call is ignored, a quorum of 1 is applied
add_claim_ignoring_quorum(ps, request, claimant, signature, claim, quorum_size) ==
    AddClaimAdded(~ contains_key(ps.claim_accumulator, request), ps.key_store, request,
                  AccAdd(set_quorum(ps.claim_accumulator, 1), request,
                         <<claimant, signature, claim>>),
                  1)

\* ret is Some(<<"Resolved", request, claim>>), Some(<<"RequestKeys", name>>) or None
add_claim(ps, request, claimant, signature, claim, quorum_size) ==
    AddClaimAdded(~ contains_key(ps.claim_accumulator, request), ps.key_store, request,
                  AccAdd(set_quorum(ps.claim_accumulator, quorum_size), request,
                         <<claimant, signature, claim>>),
                  quorum_size)

\* variant: only the first (target, public_key) of the bundle is stored
AddFirstKey(ks, sender, keys) ==
    IF keys = <<>> THEN ks
    ELSE add_key(ks, Head(keys)[1], sender, Head(keys)[2])

\* the loop over the bundle: every (target, public_key) is attested by sender
RECURSIVE AddAllKeys(_, _, _)
AddAllKeys(ks, sender, keys) ==
    IF keys = <<>> THEN ks
    ELSE AddAllKeys(add_key(ks, Head(keys)[1], sender, Head(keys)[2]),
                    sender, Tail(keys))

AddKeysResult(got, r) ==
    [ps       |-> r.ps,
     ret      |-> IF IsSome(r.ret)
                  THEN Some(<<"Resolved", Unwrap(r.ret)[1], Unwrap(r.ret)[2]>>)
                  ELSE None,
     known    |-> IsSome(got.ret),
     claims   |-> IF IsSome(got.ret) THEN Unwrap(got.ret)[2] ELSE <<>>,
     snapshot |-> IsSome(got.ret),
     verified |-> r.verified,
     used     |-> r.used,
     asserts  |-> r.asserts]

AddKeysGot(key_store_, got, quorum_size) ==
    AddKeysResult(got,
                  AndThenResolve([claim_accumulator |-> got.acc, key_store |-> key_store_],
                                 got.ret, quorum_size))

\* variant: the keys are stored before looking whether the Request is known
add_keys_unsolicited(ps, request, sender, keys, quorum_size) ==
    AddKeysGot(AddAllKeys(ps.key_store, sender, keys),
               AccGet(ps.claim_accumulator, request), quorum_size)

\* variant: the claims are verified before the bundle is stored
add_keys_verifying_first(ps, request, sender, keys, quorum_size) ==
    IF ~ contains_key(ps.claim_accumulator, request)
    THEN [ps |-> ps, ret |-> None, known |-> FALSE, claims |-> <<>>,
          snapshot |-> FALSE, verified |-> <<>>, used |-> {}, asserts |-> TRUE]
    ELSE [AddKeysGot(ps.key_store, AccGet(ps.claim_accumulator, request), quorum_size)
             EXCEPT !.ps.key_store = AddAllKeys(@, sender, keys)]

\* variant: the quorum the accumulator got from the last add_claim is applied
add_keys_at_stored_quorum(ps, request, sender, keys, quorum_size) ==
    IF ~ contains_key(ps.claim_accumulator, request)
    THEN [ps |-> ps, ret |-> None, known |-> FALSE, claims |-> <<>>,
          snapshot |-> FALSE, verified |-> <<>>, used |-> {}, asserts |-> TRUE]
    ELSE AddKeysGot(AddAllKeys(ps.key_store, sender, keys),
                    AccGet(ps.claim_accumulator, request), ps.claim_accumulator.quorum)

\* ret is Some(<<"Resolved", request, claim>>) or None
add_keys(ps, request, sender, keys, quorum_size) ==
    IF ~ contains_key(ps.claim_accumulator, request)
    THEN [ps |-> ps, ret |-> None, known |-> FALSE, claims |-> <<>>,
          snapshot |-> FALSE, verified |-> <<>>, used |-> {}, asserts |-> TRUE]
    ELSE AddKeysGot(AddAllKeys(ps.key_store, sender, keys),
                    AccGet(ps.claim_accumulator, request), quorum_size)

(***************************************************************************)
(* Universes of the inputs                                                 *)
(***************************************************************************)
Names == 1..3

\* the names that submit claims in the free specification
Claimants == {1, 2}

Bodies == {"x", "y"}

AllKeys == 1..4

QuorumSizes == 1..MaxQuorum

Requests == {[core |-> 1, name |-> 1], [core |-> 2, name |-> 2]}

\* the public key of the key pair that name generated
PublicKeyOf(name) == name

\* honest submissions of claimant 1 over both bodies and of claimant 2 over
\* "x", and one whose signature covers other bytes than the body it comes with
Submissions ==
    {<<1, Sign(PublicKeyOf(1), "x"), "x">>, <<2, Sign(PublicKeyOf(2), "x"), "x">>,
     <<1, Sign(PublicKeyOf(1), "y"), "y">>, <<1, Sign(PublicKeyOf(1), "x"), "y">>}

\* bundles of (target, public key): true ones, and a false one (key 2 for name 1)
KeyBundles ==
    {<<<<1, PublicKeyOf(1)>>>>, <<<<1, PublicKeyOf(1)>>, <<2, PublicKeyOf(2)>>>>,
     <<<<1, PublicKeyOf(2)>>>>}

\* number of submissions the accumulator holds over all Requests
RECURSIVE TotalClaims(_, _)
TotalClaims(map, keys) ==
    IF keys = {} THEN 0
    ELSE LET k == CHOOSE x \in keys : TRUE
         IN  Len(map[k]) + TotalClaims(map, keys \ {k})

Held == TotalClaims(claim_accumulator.storage.map, DOMAIN claim_accumulator.storage.map)

(***************************************************************************)
(* State: the two fields of PureSentinel, the outcome of the last call     *)
(* (last), and the progress of a scripted scenario (script)                *)
(***************************************************************************)
Sentinel == [claim_accumulator |-> claim_accumulator, key_store |-> key_store]

NoCall ==
    [op |-> "new", request |-> [core |-> 0, name |-> 0],
     quorum_size |-> 0, ret |-> None, known |-> FALSE, claims |-> <<>>,
     snapshot |-> FALSE, verified |-> <<>>, used |-> {}, asserts |-> TRUE]

Outcome(op, request, quorum_size, r) ==
    [op |-> op, request |-> request,
     quorum_size |-> quorum_size, ret |-> r.ret, known |-> r.known,
     claims |-> r.claims, snapshot |-> r.snapshot, verified |-> r.verified,
     used |-> r.used, asserts |-> r.asserts]

\* no sibling component is built
NoSibling == [claim_threshold |-> 0, keys_threshold |-> 0]

NoScript ==
    [phase |-> "free", quorum_size |-> 0, request |-> [core |-> 0, name |-> 0],
     body |-> "", claimants |-> <<>>, senders |-> <<>>, results |-> <<>>]

Init ==
    /\ claim_accumulator = PureSentinelNew.claim_accumulator
    /\ key_store = PureSentinelNew.key_store
    /\ last = NoCall
    /\ script = NoScript
    /\ sibling = NoSibling
    /\ frequency = FrequencyNew

\* the call's effect on the state, and its outcome
Called(op, request, quorum_size, r) ==
    /\ claim_accumulator' = r.ps.claim_accumulator
    /\ key_store' = r.ps.key_store
    /\ last' = Outcome(op, request, quorum_size, r)

CallAddClaim(request, claimant, signature, claim, quorum_size) ==
    Called("add_claim", request, quorum_size,
           add_claim(Sentinel, request, claimant, signature, claim, quorum_size))

CallAddKeys(request, sender, keys, quorum_size) ==
    Called("add_keys", request, quorum_size,
           add_keys(Sentinel, request, sender, keys, quorum_size))

AddClaim ==
    /\ Held < MaxClaims
    /\ \E request \in Requests, s \in Submissions, quorum_size \in QuorumSizes :
           CallAddClaim(request, s[1], s[2], s[3], quorum_size)
    /\ UNCHANGED script
    /\ UNCHANGED <<sibling, frequency>>

\* number of (target, key, sender) attestations the KeyStore holds
RECURSIVE CountAttestations(_, _)
CountAttestations(map, pairs) ==
    IF pairs = {} THEN 0
    ELSE LET p == CHOOSE x \in pairs : TRUE
         IN  Cardinality(map[p[1]][p[2]]) + CountAttestations(map, pairs \ {p})

Attested ==
    CountAttestations(key_store.cache.map,
                      {p \in (DOMAIN key_store.cache.map) \X AllKeys :
                           p[2] \in DOMAIN key_store.cache.map[p[1]]})

AddKeys ==
    /\ Attested < MaxAttestations
    /\ \E request \in Requests, sender \in Names, keys \in KeyBundles,
          quorum_size \in QuorumSizes :
           CallAddKeys(request, sender, keys, quorum_size)
    /\ UNCHANGED script
    /\ UNCHANGED <<sibling, frequency>>

Next == AddClaim \/ AddKeys

Spec == Init /\ [][Next]_vars

(***************************************************************************)
(* The scripted run of the tests one_request_and_one_key and               *)
(* requests_added_with_various_key_size on a new sentinel: quorum_size     *)
(* claims over one body, each signed by its claimant's own key, then       *)
(* quorum_size bundles naming every claimant with its key, each from a     *)
(* different sender.  script.results collects the return values.           *)
(***************************************************************************)
ScNames == 1..4

ScInit ==
    /\ claim_accumulator = PureSentinelNew.claim_accumulator
    /\ key_store = PureSentinelNew.key_store
    /\ last = NoCall
    /\ script \in {[phase |-> "claims", quorum_size |-> q, request |-> R, body |-> b,
                    claimants |-> <<>>, senders |-> <<>>, results |-> <<>>] :
                       q \in QuorumSizes, R \in Requests, b \in Bodies}
    /\ sibling = NoSibling
    /\ frequency = FrequencyNew

\* name_key_pairs: every claimant with its public key
ScBundle(claimants) == [i \in DOMAIN claimants |-> <<claimants[i], PublicKeyOf(claimants[i])>>]

ScClaim ==
    /\ script.phase = "claims"
    /\ \E claimant \in ScNames \ Range(script.claimants) :
           /\ CallAddClaim(script.request, claimant,
                           Sign(PublicKeyOf(claimant), script.body), script.body,
                           script.quorum_size)
           /\ script' = [script EXCEPT
                             !.claimants = Append(@, claimant),
                             !.results = Append(@, last'.ret),
                             !.phase = IF Len(script.claimants) + 1 = script.quorum_size
                                       THEN "keys" ELSE "claims"]
    /\ UNCHANGED <<sibling, frequency>>

ScKeys ==
    /\ script.phase = "keys"
    /\ \E sender \in ScNames \ Range(script.senders) :
           /\ CallAddKeys(script.request, sender, ScBundle(script.claimants),
                          script.quorum_size)
           /\ script' = [script EXCEPT
                             !.senders = Append(@, sender),
                             !.results = Append(@, last'.ret),
                             !.phase = IF Len(script.senders) + 1 = script.quorum_size
                                       THEN "done" ELSE "keys"]
    /\ UNCHANGED <<sibling, frequency>>

\* the further add_keys calls that end requests_added_with_various_key_size:
\* up to two more bundles, from any sender, after the first quorum_size
ScMore ==
    /\ script.phase \in {"done", "more"}
    /\ Len(script.senders) < script.quorum_size + 2
    /\ \E sender \in ScNames :
           /\ CallAddKeys(script.request, sender, ScBundle(script.claimants),
                          script.quorum_size)
           /\ script' = [script EXCEPT
                             !.senders = Append(@, sender),
                             !.results = Append(@, last'.ret),
                             !.phase = "more"]
    /\ UNCHANGED <<sibling, frequency>>

ScNext == ScClaim \/ ScKeys \/ ScMore

SpecScenario == ScInit /\ [][ScNext]_vars

(***************************************************************************)
(* The KeyStore on its own (key_store.rs, tests quorum_reached,            *)
(* no_self_sign and successful_attack): any add_key and                    *)
(* get_accumulated_keys calls on a store built with any quorum.            *)
(***************************************************************************)
KsKeys == {1, 2}

KsQuorums == 0..MaxQuorum

KsNoCall ==
    [op |-> "new", target |-> 0, sender |-> 0, key |-> 0, quorum_size |-> None,
     ret |-> <<>>]

KsInit ==
    /\ claim_accumulator = PureSentinelNew.claim_accumulator
    /\ key_store \in {KeyStoreNew(q) : q \in KsQuorums}
    /\ last = KsNoCall
    /\ script = NoScript
    /\ sibling = NoSibling
    /\ frequency = FrequencyNew

KsAddKey ==
    /\ Attested < MaxAttestations
    /\ \E target \in Names, sender \in Names, key \in KsKeys :
           /\ key_store' = add_key(key_store, target, sender, key)
           /\ last' = [op |-> "add_key", target |-> target, sender |-> sender,
                       key |-> key, quorum_size |-> None, ret |-> <<>>]
    /\ UNCHANGED <<claim_accumulator, script>>
    /\ UNCHANGED <<sibling, frequency>>

KsGot(target, quorum_size, r) ==
    /\ key_store' = r.ks
    /\ last' = [op |-> "get_accumulated_keys", target |-> target, sender |-> 0,
                key |-> 0, quorum_size |-> quorum_size, ret |-> r.ret]

KsGetAccumulatedKeys ==
    /\ \E target \in Names, quorum_size \in {None} \cup {Some(q) : q \in KsQuorums} :
           KsGot(target, quorum_size, get_accumulated_keys(key_store, target, quorum_size))
    /\ UNCHANGED <<claim_accumulator, script>>
    /\ UNCHANGED <<sibling, frequency>>

KsNext == KsAddKey \/ KsGetAccumulatedKeys

SpecKeyStore == KsInit /\ [][KsNext]_vars

(***************************************************************************)
(* A KeyStore that holds few targets, so that add_key meets a full cache:  *)
(* the same calls as above on a store of KsCapacity targets.  script lists *)
(* the targets in the order of their last use, by add_key or by            *)
(* get_accumulated_keys.                                                   *)
(***************************************************************************)
KsCapacity == 2

KfInit ==
    /\ claim_accumulator = PureSentinelNew.claim_accumulator
    /\ key_store \in {[KeyStoreNew(q) EXCEPT !.cache = LruNew(KsCapacity)] : q \in KsQuorums}
    /\ last = KsNoCall
    /\ script = <<>>
    /\ sibling = NoSibling
    /\ frequency = FrequencyNew

KfAddKey ==
    /\ Attested < MaxAttestations
    /\ \E target \in Names, sender \in Names, key \in KsKeys :
           /\ key_store' = add_key(key_store, target, sender, key)
           /\ last' = [op |-> "add_key", target |-> target, sender |-> sender,
                       key |-> key, quorum_size |-> None, ret |-> <<>>]
           /\ script' = IF target = sender THEN script
                        ELSE Append(SeqWithout(script, target), target)
    /\ UNCHANGED <<claim_accumulator, sibling, frequency>>

KfGetAccumulatedKeys ==
    /\ \E target \in Names, quorum_size \in {None} \cup {Some(q) : q \in KsQuorums} :
           /\ KsGot(target, quorum_size, get_accumulated_keys(key_store, target, quorum_size))
           /\ script' = IF target \in Range(script)
                        THEN Append(SeqWithout(script, target), target)
                        ELSE script
    /\ UNCHANGED <<claim_accumulator, sibling, frequency>>

KfNext == KfAddKey \/ KfGetAccumulatedKeys

SpecKeyStoreFull == KfInit /\ [][KfNext]_vars

(***************************************************************************)
(* The accumulator on its own (refresh_sentinel.rs and its tests): any     *)
(* add, get, delete, contains_key, is_quorum_reached and set_quorum calls. *)
(* script lists every key ever passed to add, get or is_quorum_reached,    *)
(* the least recently passed first.                                        *)
(***************************************************************************)
AccKeys == 1..3

AccValues == {"a", "b"}

AccQuorums == 0..MaxQuorum

AccNoCall ==
    [op |-> "new", key |-> 0, value |-> "", ret |-> None, present |-> FALSE, size |-> 0]

AccInit ==
    /\ claim_accumulator \in
           {[AccumulatorNew(q) EXCEPT !.storage = LruNew(AccCapacity)] : q \in AccQuorums}
    /\ key_store = PureSentinelNew.key_store
    /\ last = AccNoCall
    /\ script = <<>>
    /\ sibling = NoSibling
    /\ frequency = FrequencyNew

\* key becomes the most recently passed key
Passed(order, key) == Append(SeqWithout(order, key), key)

\* present and size: whether key was live, and how many keys were, at the call
AccCalled(op, key, value, present, acc, ret) ==
    /\ claim_accumulator' = acc
    /\ last' = [op |-> op, key |-> key, value |-> value, ret |-> ret,
                present |-> present, size |-> LruLen(claim_accumulator.storage)]

AccAdded(key, value, r) ==
    AccCalled("add", key, value, contains_key(claim_accumulator, key), r.acc, r.ret)

AccAddOp ==
    /\ \E key \in AccKeys, value \in AccValues :
           /\ contains_key(claim_accumulator, key)
                  => Len(claim_accumulator.storage.map[key]) < MaxValues
           /\ AccAdded(key, value, AccAdd(claim_accumulator, key, value))
           /\ script' = Passed(script, key)
    /\ UNCHANGED key_store
    /\ UNCHANGED <<sibling, frequency>>

AccGot(op, key, r) ==
    AccCalled(op, key, "", contains_key(claim_accumulator, key), r.acc, r.ret)

AccGetOp ==
    /\ \E key \in AccKeys :
           /\ AccGot("get", key, AccGet(claim_accumulator, key))
           /\ script' = Passed(script, key)
    /\ UNCHANGED key_store
    /\ UNCHANGED <<sibling, frequency>>

AccIsQuorumReachedOp ==
    /\ \E key \in AccKeys :
           /\ AccGot("is_quorum_reached", key, is_quorum_reached(claim_accumulator, key))
           /\ script' = Passed(script, key)
    /\ UNCHANGED key_store
    /\ UNCHANGED <<sibling, frequency>>

AccDeleteOp ==
    /\ \E key \in AccKeys :
           AccCalled("delete", key, "", contains_key(claim_accumulator, key),
                     AccDelete(claim_accumulator, key), None)
    /\ UNCHANGED <<key_store, script>>
    /\ UNCHANGED <<sibling, frequency>>

AccContainsKeyOp ==
    /\ \E key \in AccKeys :
           AccCalled("contains_key", key, "", contains_key(claim_accumulator, key),
                     claim_accumulator, contains_key(claim_accumulator, key))
    /\ UNCHANGED <<key_store, script>>
    /\ UNCHANGED <<sibling, frequency>>

AccSetQuorumOp ==
    /\ \E quorum \in AccQuorums :
           AccCalled("set_quorum", 0, "", FALSE, set_quorum(claim_accumulator, quorum), None)
    /\ UNCHANGED <<key_store, script>>
    /\ UNCHANGED <<sibling, frequency>>

AccNext ==
    \/ AccAddOp
    \/ AccGetOp
    \/ AccIsQuorumReachedOp
    \/ AccDeleteOp
    \/ AccContainsKeyOp
    \/ AccSetQuorumOp

SpecAccumulator == AccInit /\ [][AccNext]_vars

(***************************************************************************)
(* squash on its own (pure_sentinel.rs 161-185): applied to any sequence   *)
(* of verified claims and any quorum_size.  script holds the arguments.    *)
(***************************************************************************)
SquashBodies == {"x", "y", "z"}

\* the sequences over S of length at most n
SeqsUpTo(S, n) == UNION {[1..k -> S] : k \in 0..n}

SqInit ==
    /\ claim_accumulator = PureSentinelNew.claim_accumulator
    /\ key_store = PureSentinelNew.key_store
    /\ last = [op |-> "none", ret |-> None, asserts |-> TRUE]
    /\ script \in {[verified_claims |-> v, quorum_size |-> q] :
                      v \in SeqsUpTo(SquashBodies, MaxVerified), q \in 0..MaxQuorum}
    /\ sibling = NoSibling
    /\ frequency = FrequencyNew

SqSquashed(r) == last' = [op |-> "squash", ret |-> r.ret, asserts |-> r.asserts]

SqSquash ==
    /\ last.op = "none"
    /\ SqSquashed(squash(script.verified_claims, script.quorum_size))
    /\ UNCHANGED <<claim_accumulator, key_store, script, sibling, frequency>>

SqNext == SqSquash

SpecSquash == SqInit /\ [][SqNext]_vars

(***************************************************************************)
(* Two PureSentinels side by side: both receive the same add_claim and     *)
(* add_keys calls for TheRequest, and the second one (sibling) also        *)
(* receives calls for OtherRequest.  Both accumulators hold two Requests,  *)
(* so nothing is evicted.  script counts the calls.                        *)
(***************************************************************************)
TheRequest == [core |-> 1, name |-> 1]

OtherRequest == [core |-> 2, name |-> 2]

TwoNew ==
    [claim_accumulator |-> [AccumulatorNew(0) EXCEPT !.storage = LruNew(AccCapacity)],
     key_store |-> KeyStoreNew(0)]

HeldBy(ps) ==
    TotalClaims(ps.claim_accumulator.storage.map, DOMAIN ps.claim_accumulator.storage.map)

AttestedBy(ps) ==
    CountAttestations(ps.key_store.cache.map,
                      {p \in (DOMAIN ps.key_store.cache.map) \X AllKeys :
                           p[2] \in DOMAIN ps.key_store.cache.map[p[1]]})

TwoInit ==
    /\ claim_accumulator = TwoNew.claim_accumulator
    /\ key_store = TwoNew.key_store
    /\ sibling = TwoNew
    /\ last = [op |-> "new", ret |-> None, ret_other |-> None]
    /\ script = [calls |-> 0]
    /\ frequency = FrequencyNew

\* the same call made on both sentinels: r on the first, r_other on the second
TwoCalled(op, r, r_other) ==
    /\ claim_accumulator' = r.ps.claim_accumulator
    /\ key_store' = r.ps.key_store
    /\ sibling' = r_other.ps
    /\ last' = [op |-> op, ret |-> r.ret, ret_other |-> r_other.ret]

TwoAddClaim ==
    /\ script.calls < MaxCalls
    /\ script' = [calls |-> script.calls + 1]
    /\ HeldBy(sibling) < MaxClaims
    /\ \E s \in Submissions, quorum_size \in QuorumSizes :
           TwoCalled("add_claim",
                     add_claim(Sentinel, TheRequest, s[1], s[2], s[3], quorum_size),
                     add_claim(sibling, TheRequest, s[1], s[2], s[3], quorum_size))
    /\ UNCHANGED frequency

TwoAddKeys ==
    /\ script.calls < MaxCalls
    /\ script' = [calls |-> script.calls + 1]
    /\ AttestedBy(sibling) < MaxAttestations
    /\ \E sender \in Names, keys \in KeyBundles, quorum_size \in QuorumSizes :
           TwoCalled("add_keys",
                     add_keys(Sentinel, TheRequest, sender, keys, quorum_size),
                     add_keys(sibling, TheRequest, sender, keys, quorum_size))
    /\ UNCHANGED frequency

\* a call for the other Request, made on the second sentinel only
TwoOtherCalled(op, r_other) ==
    /\ sibling' = r_other.ps
    /\ last' = [op |-> op, ret |-> None, ret_other |-> r_other.ret]

TwoOtherAddClaim ==
    /\ script.calls < MaxCalls
    /\ script' = [calls |-> script.calls + 1]
    /\ HeldBy(sibling) < MaxClaims
    /\ \E s \in Submissions, quorum_size \in QuorumSizes :
           TwoOtherCalled("other add_claim",
                          add_claim(sibling, OtherRequest, s[1], s[2], s[3], quorum_size))
    /\ UNCHANGED <<claim_accumulator, key_store, frequency>>

TwoOtherAddKeys ==
    /\ script.calls < MaxCalls
    /\ script' = [calls |-> script.calls + 1]
    /\ AttestedBy(sibling) < MaxAttestations
    /\ \E sender \in Names, keys \in KeyBundles, quorum_size \in QuorumSizes :
           TwoOtherCalled("other add_keys",
                          add_keys(sibling, OtherRequest, sender, keys, quorum_size))
    /\ UNCHANGED <<claim_accumulator, key_store, frequency>>

TwoNext == TwoAddClaim \/ TwoAddKeys \/ TwoOtherAddClaim \/ TwoOtherAddKeys

SpecTwoRuns == TwoInit /\ [][TwoNext]_vars

(***************************************************************************)
(* Frequency on its own (statistics.rs 20-49): any update and              *)
(* sort_by_highest calls on one counter.  sort_by_highest sorts the        *)
(* counter's own vector and returns a copy.  script lists the values       *)
(* passed to update so far.                                                *)
(***************************************************************************)
FrValues == {"x", "y", "z"}

FrInit ==
    /\ claim_accumulator = PureSentinelNew.claim_accumulator
    /\ key_store = PureSentinelNew.key_store
    /\ sibling = NoSibling
    /\ frequency = FrequencyNew
    /\ last = [op |-> "new", ret |-> <<>>]
    /\ script = <<>>

FrUpdate ==
    /\ Len(script) < MaxUpdates
    /\ \E key \in FrValues :
           /\ frequency' = FrequencyUpdate(frequency, key)
           /\ script' = Append(script, key)
    /\ last' = [op |-> "update", ret |-> <<>>]
    /\ UNCHANGED <<claim_accumulator, key_store, sibling>>

FrSorted(sorted) ==
    /\ frequency' = sorted
    /\ last' = [op |-> "sort_by_highest", ret |-> sorted]

FrSortByHighest ==
    /\ FrSorted(sort_by_highest(frequency))
    /\ UNCHANGED <<claim_accumulator, key_store, sibling, script>>

FrNext == FrUpdate \/ FrSortByHighest

SpecFrequency == FrInit /\ [][FrNext]_vars

(***************************************************************************)
(* FrequencyKeyValue on its own (statistics.rs 51-95): any update and      *)
(* sort_by_highest calls on one counter.  script lists the <<key, value>>  *)
(* pairs passed to update so far.                                          *)
(***************************************************************************)
KvKeys == {1, 2}

KvValues == {"a", "b"}

KvInit ==
    /\ claim_accumulator = PureSentinelNew.claim_accumulator
    /\ key_store = PureSentinelNew.key_store
    /\ sibling = NoSibling
    /\ frequency = FrequencyKeyValueNew
    /\ last = [op |-> "new", ret |-> <<>>]
    /\ script = <<>>

KvUpdate ==
    /\ Len(script) < MaxUpdates
    /\ \E key \in KvKeys, value \in KvValues :
           /\ frequency' = FrequencyKeyValueUpdate(frequency, key, value)
           /\ script' = Append(script, <<key, value>>)
    /\ last' = [op |-> "update", ret |-> <<>>]
    /\ UNCHANGED <<claim_accumulator, key_store, sibling>>

KvSortByHighest ==
    /\ FrSorted(FrequencyKeyValueSortByHighest(frequency))
    /\ UNCHANGED <<claim_accumulator, key_store, sibling, script>>

KvNext == KvUpdate \/ KvSortByHighest

SpecFrequencyKeyValue == KvInit /\ [][KvNext]_vars

(***************************************************************************)
(* The median Sentinel of account_sentinel.rs.  The struct declares no     *)
(* mergeable_claim_accumulator although add_mergeable_claim uses one: it   *)
(* is taken to be an Accumulator built like claim_accumulator.  sender     *)
(* counts the get_signing_keys calls.                                      *)
(***************************************************************************)
AccountSentinelNew(claim_threshold, keys_threshold) ==
    [sender |-> 0,
     claim_accumulator |->
         [AccumulatorNew(claim_threshold) EXCEPT !.storage = LruNew(AccCapacity)],
     mergeable_claim_accumulator |->
         [AccumulatorNew(claim_threshold) EXCEPT !.storage = LruNew(AccCapacity)],
     keys_accumulator |->
         [AccumulatorNew(keys_threshold) EXCEPT !.storage = LruNew(AccCapacity)],
     claim_threshold |-> claim_threshold,
     keys_threshold |-> keys_threshold]

\* flatten_keys: its body is commented out, it returns vec![]
account_flatten_keys(sets_of_keys) == <<>>

\* check_signature: its body is commented out, it returns None
account_check_signature(signature, claim, public_key) == None

\* the position of the first key stored for name, 0 when there is none
FirstKeyOf(keys, name) ==
    IF \E j \in DOMAIN keys : keys[j][1] = name
    THEN CHOOSE j \in DOMAIN keys :
             keys[j][1] = name /\ \A k \in 1..(j - 1) : keys[k][1] # name
    ELSE 0

\* what the claim at the head contributes, given the position of its key
AccountVerifiedOne(claim, keys, j) ==
    IF j = 0 THEN <<>>
    ELSE IF IsSome(account_check_signature(claim[2], claim[3], keys[j][2]))
         THEN <<Unwrap(account_check_signature(claim[2], claim[3], keys[j][2]))>>
         ELSE <<>>

\* the two loops of validate
RECURSIVE AccountVerified(_, _)
AccountVerified(claims, keys) ==
    IF claims = <<>> THEN <<>>
    ELSE AccountVerifiedOne(Head(claims), keys, FirstKeyOf(keys, Head(claims)[1]))
             \o AccountVerified(Tail(claims), keys)

AccountValidated(s, verified_claims) ==
    IF Len(verified_claims) >= s.claim_threshold THEN Some(verified_claims) ELSE None

AccountValidateWith(s, claims, keys) ==
    IF Len(keys) < s.keys_threshold THEN None
    ELSE AccountValidated(s, AccountVerified(claims, keys))

account_validate(s, claims, sets_of_keys) ==
    AccountValidateWith(s, claims, account_flatten_keys(sets_of_keys))

\* how many of the verified claims equal the given one
Total(verified_claims, claim) ==
    Cardinality({j \in DOMAIN verified_claims : verified_claims[j] = claim})

\* the first claim that claim_threshold of the verified claims equal
account_resolve(s, verified_claims) ==
    IF Len(verified_claims) < s.claim_threshold \/ ~ (s.claim_threshold >= 1) THEN None
    ELSE IF \E i \in DOMAIN verified_claims :
                Total(verified_claims, verified_claims[i]) >= s.claim_threshold
         THEN Some(verified_claims[
                  CHOOSE i \in DOMAIN verified_claims :
                      /\ Total(verified_claims, verified_claims[i]) >= s.claim_threshold
                      /\ \A k \in 1..(i - 1) :
                             Total(verified_claims, verified_claims[k]) < s.claim_threshold])
         ELSE None

\* verified_claims.sort()
RECURSIVE SortAscending(_)
SortAscending(seq) ==
    IF seq = <<>> THEN <<>>
    ELSE <<seq[CHOOSE i \in DOMAIN seq : \A j \in DOMAIN seq : seq[i] <= seq[j]]>>
             \o SortAscending(
                    [k \in 1..(Len(seq) - 1) |->
                        IF k < (CHOOSE i \in DOMAIN seq : \A j \in DOMAIN seq : seq[i] <= seq[j])
                        THEN seq[k] ELSE seq[k + 1]])

account_resolve_mergeable(s, verified_claims) ==
    IF Len(verified_claims) < s.claim_threshold \/ ~ (s.claim_threshold >= 1) THEN None
    ELSE Some(SortAscending(verified_claims)[(Len(verified_claims) \div 2) + 1])

AccountMerged(request, merged_claim) ==
    IF IsSome(merged_claim) THEN Some(<<request, Unwrap(merged_claim)>>) ELSE None

\* the and_then chain after validate: resolve or resolve_mergeable
AccountResolved(s, request, validated, mergeable) ==
    IF IsSome(validated)
    THEN AccountMerged(request,
                       IF mergeable
                       THEN account_resolve_mergeable(s, Unwrap(validated))
                       ELSE account_resolve(s, Unwrap(validated)))
    ELSE None

\* add_claim, given the outcome of keys_accumulator.get and claim_accumulator.add
AccountAddClaimWith(s, request, got, added) ==
    IF IsSome(got.ret)
    THEN [s |-> [s EXCEPT !.keys_accumulator = got.acc, !.claim_accumulator = added.acc],
          ret |-> IF IsSome(added.ret)
                  THEN AccountResolved(s, request,
                                       account_validate(s, Unwrap(added.ret)[2],
                                                        Unwrap(got.ret)[2]),
                                       FALSE)
                  ELSE None]
    ELSE [s |-> [s EXCEPT !.sender = @ + 1,
                          !.keys_accumulator = got.acc,
                          !.claim_accumulator = added.acc],
          ret |-> None]

account_add_claim(s, request, claimant, signature, claim) ==
    AccountAddClaimWith(s, request, AccGet(s.keys_accumulator, request),
                        AccAdd(s.claim_accumulator, request, <<claimant, signature, claim>>))

\* add_mergeable_claim, given the outcome of keys_accumulator.get and of
\* mergeable_claim_accumulator.add
AccountAddMergeableClaimWith(s, request, got, added) ==
    IF IsSome(got.ret)
    THEN [s |-> [s EXCEPT !.keys_accumulator = got.acc,
                          !.mergeable_claim_accumulator = added.acc],
          ret |-> IF IsSome(added.ret)
                  THEN AccountResolved(s, request,
                                       account_validate(s, Unwrap(added.ret)[2],
                                                        Unwrap(got.ret)[2]),
                                       TRUE)
                  ELSE None]
    ELSE [s |-> [s EXCEPT !.sender = @ + 1,
                          !.keys_accumulator = got.acc,
                          !.mergeable_claim_accumulator = added.acc],
          ret |-> None]

add_mergeable_claim(s, request, claimant, signature, claim) ==
    AccountAddMergeableClaimWith(
        s, request, AccGet(s.keys_accumulator, request),
        AccAdd(s.mergeable_claim_accumulator, request, <<claimant, signature, claim>>))

\* add_keys, given the outcome of claim_accumulator.get and keys_accumulator.add
AccountAddKeysWith(s, request, got, added) ==
    IF IsSome(got.ret)
    THEN [s |-> [s EXCEPT !.claim_accumulator = got.acc, !.keys_accumulator = added.acc],
          ret |-> IF IsSome(added.ret)
                  THEN AccountResolved(s, request,
                                       account_validate(s, Unwrap(got.ret)[2],
                                                        Unwrap(added.ret)[2]),
                                       FALSE)
                  ELSE None]
    ELSE [s |-> [s EXCEPT !.claim_accumulator = got.acc], ret |-> None]

account_add_keys(s, request, keys) ==
    AccountAddKeysWith(s, request, AccGet(s.claim_accumulator, request),
                       AccAdd(s.keys_accumulator, request, keys))

(***************************************************************************)
(* The median Sentinel on its own: any add_claim, add_mergeable_claim and  *)
(* add_keys calls for TheRequest.  sibling is the Sentinel, script counts  *)
(* the calls.                                                              *)
(***************************************************************************)
\* name n submits the number n, signed with its own key
AsSubmissions == {<<n, Sign(PublicKeyOf(n), n), n>> : n \in Names}

\* a bundle naming every name with its true key, and one naming only name 1
AsBundles ==
    {<<<<1, PublicKeyOf(1)>>, <<2, PublicKeyOf(2)>>, <<3, PublicKeyOf(3)>>>>,
     <<<<1, PublicKeyOf(1)>>>>}

AsInit ==
    /\ claim_accumulator = PureSentinelNew.claim_accumulator
    /\ key_store = PureSentinelNew.key_store
    /\ frequency = FrequencyNew
    /\ sibling \in {AccountSentinelNew(c, k) : c \in AccQuorums, k \in AccQuorums}
    /\ last = [op |-> "new", ret |-> None]
    /\ script = [calls |-> 0]

AsCalled(op, r) ==
    /\ script.calls < MaxCalls
    /\ script' = [calls |-> script.calls + 1]
    /\ sibling' = r.s
    /\ last' = [op |-> op, ret |-> r.ret]
    /\ UNCHANGED <<claim_accumulator, key_store, frequency>>

AsAddClaim ==
    \E c \in AsSubmissions :
        AsCalled("add_claim", account_add_claim(sibling, TheRequest, c[1], c[2], c[3]))

AsAddMergeableClaim ==
    \E c \in AsSubmissions :
        AsCalled("add_mergeable_claim",
                 add_mergeable_claim(sibling, TheRequest, c[1], c[2], c[3]))

AsAddKeys ==
    \E keys \in AsBundles :
        AsCalled("add_keys", account_add_keys(sibling, TheRequest, keys))

AsNext == AsAddClaim \/ AsAddMergeableClaim \/ AsAddKeys

SpecAccountSentinel == AsInit /\ [][AsNext]_vars

(***************************************************************************)
(* KeySentinel (key_sentinel.rs): cache maps a Request to a KeyStore and   *)
(* to the group claims received, by sender.  A group claim is a message,   *)
(* a signature and the identities (name, public key) it vouches for.       *)
(* GroupClaimList lists the claims of the model in their Ord order, the    *)
(* order in which a BTreeSet of claims is walked.                          *)
(***************************************************************************)
GroupClaimOf(key, identities) ==
    [serialised_message |-> "m", signature |-> Sign(key, "m"), identities |-> identities]

\* one claim signed by name 1 that gives names 1 and 2 the key of name 1,
\* and the claims of names 1, 2 and 3 signed with their own keys
GroupClaimList ==
    << GroupClaimOf(PublicKeyOf(1), <<<<1, PublicKeyOf(1)>>, <<2, PublicKeyOf(1)>>>>),
       GroupClaimOf(PublicKeyOf(1), <<<<1, PublicKeyOf(1)>>, <<2, PublicKeyOf(2)>>>>),
       GroupClaimOf(PublicKeyOf(2), <<<<1, PublicKeyOf(1)>>, <<2, PublicKeyOf(2)>>>>),
       GroupClaimOf(PublicKeyOf(3),
                    <<<<1, PublicKeyOf(1)>>, <<2, PublicKeyOf(2)>>, <<3, PublicKeyOf(3)>>>>) >>

GroupClaims == Range(GroupClaimList)

\* the claims of a set in the order a BTreeSet yields them
InOrder(claims) == SelectSeq(GroupClaimList, LAMBDA c : c \in claims)

group_identities(claim) == claim.identities

verify_public_key(claim, public_key) ==
    IsSome(verify_signature(claim.signature, public_key, claim.serialised_message))

KeySentinelNew(claim_threshold, keys_threshold) ==
    [cache |-> LruNew(MAX_REQUEST_COUNT),
     claim_threshold |-> claim_threshold,
     keys_threshold |-> keys_threshold]

\* variant: a new Request starts with the key store of the Request used last
KeysAndClaimsSharingKeys(s, request) ==
    IF LruCheck(s.cache, request) THEN s.cache.map[request]
    ELSE IF s.cache.list = <<>>
         THEN [keys |-> KeyStoreNew(s.keys_threshold), claims |-> EmptyMap]
         ELSE [keys |-> s.cache.map[s.cache.list[Len(s.cache.list)]].keys,
               claims |-> EmptyMap]

\* or_insert_with(||(KeyStore::new(keys_threshold), Map::new()))
KeysAndClaims(s, request) ==
    IF LruCheck(s.cache, request) THEN s.cache.map[request]
    ELSE [keys |-> KeyStoreNew(s.keys_threshold), claims |-> EmptyMap]

\* for id in claim.group_identities() { keys.add_key(id.name(), sender, id.public_key()) }
RECURSIVE AddIdentityKeys(_, _, _)
AddIdentityKeys(keys, sender, ids) ==
    IF ids = <<>> THEN keys
    ELSE AddIdentityKeys(add_key(keys, Head(ids)[1], sender, Head(ids)[2]), sender, Tail(ids))

\* claims.entry(sender).or_insert_with(||Set::new()).insert(claim)
InsertClaim(claims, sender, claim) ==
    MapWith(claims, sender,
            (IF sender \in DOMAIN claims THEN claims[sender] ELSE {}) \cup {claim})

\* get_accumulated_keys is called with the author only: the store's quorum
verify_claim(author, store, claim) ==
    \E public_key \in Range(get_accumulated_keys(store, author, None).ret) :
        verify_public_key(claim, public_key)

\* the first claim of the author that verifies, if any
FirstVerifiedClaim(author, store, claims) ==
    IF \E claim \in claims : verify_claim(author, store, claim)
    THEN {Head(InOrder({claim \in claims : verify_claim(author, store, claim)}))}
    ELSE {}

\* the verified claims collected into a Set
VerifiedClaims(store, claims) ==
    UNION {FirstVerifiedClaim(name, store, claims[name]) : name \in DOMAIN claims}

\* every lookup of get_accumulated_keys touches the author in the key store
RECURSIVE TouchAuthors(_, _)
TouchAuthors(store, authors) ==
    IF authors = <<>> THEN store
    ELSE TouchAuthors(get_accumulated_keys(store, Head(authors), None).ks, Tail(authors))

\* flat_map(|claim| claim.group_identities())
RECURSIVE FlatIdentities(_)
FlatIdentities(claims) ==
    IF claims = <<>> THEN <<>>
    ELSE group_identities(Head(claims)) \o FlatIdentities(Tail(claims))

\* variant: the senders that have a verified claim are counted
try_selecting_group_by_senders(store, claims, claim_threshold) ==
    [keys |-> TouchAuthors(store, Ascending(DOMAIN claims)),
     ret |-> IF Cardinality({name \in DOMAIN claims :
                                 FirstVerifiedClaim(name, store, claims[name]) # {}})
                    < claim_threshold
             THEN None
             ELSE Some(FlatIdentities(InOrder(VerifiedClaims(store, claims))))]

try_selecting_group(store, claims, claim_threshold) ==
    [keys |-> TouchAuthors(store, Ascending(DOMAIN claims)),
     ret |-> IF Cardinality(VerifiedClaims(store, claims)) < claim_threshold
             THEN None
             ELSE Some(FlatIdentities(InOrder(VerifiedClaims(store, claims))))]

\* variant: the entry of a Request that got its result stays in the cache
AddIdentitiesKeeping(s, request, claims, selected) ==
    [s |-> [s EXCEPT !.cache = LruAdd(s.cache, request,
                                      [keys |-> selected.keys, claims |-> claims])],
     ret |-> IF IsSome(selected.ret) THEN Some(<<request, Unwrap(selected.ret)>>) ELSE None,
     keys |-> selected.keys,
     claims |-> claims]

\* the end of add_identities, given the claims map and what try_selecting_group gave
AddIdentitiesSelected(s, request, claims, selected) ==
    [s |-> [s EXCEPT !.cache =
                IF IsSome(selected.ret)
                THEN LruRemove(LruAdd(s.cache, request,
                                      [keys |-> selected.keys, claims |-> claims]),
                               request)
                ELSE LruAdd(s.cache, request, [keys |-> selected.keys, claims |-> claims])],
     ret |-> IF IsSome(selected.ret) THEN Some(<<request, Unwrap(selected.ret)>>) ELSE None,
     keys |-> selected.keys,
     claims |-> claims]

\* add_identities, given the key store after the add_key loop and the claims
\* map after the insert
AddIdentitiesWith(s, request, keys, claims) ==
    AddIdentitiesSelected(s, request, claims,
                          try_selecting_group(keys, claims, s.claim_threshold))

\* returns the new KeySentinel, the result, and the key store and claims map
\* that try_selecting_group worked on
add_identities(s, request, sender, claim) ==
    AddIdentitiesWith(s, request,
                      AddIdentityKeys(KeysAndClaims(s, request).keys, sender,
                                      group_identities(claim)),
                      InsertClaim(KeysAndClaims(s, request).claims, sender, claim))

(***************************************************************************)
(* KeySentinel on its own: any add_identities calls for TheRequest.        *)
(* sibling is the KeySentinel, script counts the calls, last keeps the     *)
(* call, its result, the key store and claims the selection saw, the       *)
(* claims stored before the call, and whether the call before it returned  *)
(* a result.                                                               *)
(***************************************************************************)
GsInit ==
    /\ claim_accumulator = PureSentinelNew.claim_accumulator
    /\ key_store = PureSentinelNew.key_store
    /\ frequency = FrequencyNew
    /\ sibling \in {KeySentinelNew(c, k) : c \in QuorumSizes, k \in QuorumSizes}
    /\ last = [op |-> "new", ret |-> None, sender |-> 0,
               keys |-> KeyStoreNew(0), claims |-> EmptyMap, before |-> EmptyMap,
               after_result |-> FALSE]
    /\ script = [calls |-> 0]

GsCalled(sender, r) ==
    /\ sibling' = r.s
    /\ last' = [op |-> "add_identities", ret |-> r.ret, sender |-> sender,
                keys |-> r.keys, claims |-> r.claims,
                before |-> KeysAndClaims(sibling, TheRequest).claims,
                after_result |-> IsSome(last.ret)]

GsAddIdentities ==
    /\ script.calls < MaxCalls
    /\ script' = [calls |-> script.calls + 1]
    /\ \E sender \in Names, claim \in GroupClaims :
           GsCalled(sender, add_identities(sibling, TheRequest, sender, claim))
    /\ UNCHANGED <<claim_accumulator, key_store, frequency>>

GsNext == GsAddIdentities

SpecKeySentinel == GsInit /\ [][GsNext]_vars

(***************************************************************************)
(* KeySentinel with several Requests: add_identities calls for three       *)
(* Requests on a cache of AccCapacity entries, each name submitting the    *)
(* group claim it signed itself.  last keeps the call and its result.      *)
(***************************************************************************)
GtRequests == Requests \cup {[core |-> 3, name |-> 3]}

\* the claim that name signed with its own key
OwnClaimOf(name) ==
    CHOOSE claim \in GroupClaims :
        /\ claim.signature = Sign(PublicKeyOf(name), claim.serialised_message)
        /\ <<name, PublicKeyOf(name)>> \in Range(claim.identities)
        /\ \A id \in Range(claim.identities) : id[2] = PublicKeyOf(id[1])

GtInit ==
    /\ claim_accumulator = PureSentinelNew.claim_accumulator
    /\ key_store = PureSentinelNew.key_store
    /\ frequency = FrequencyNew
    /\ sibling \in {[KeySentinelNew(c, k) EXCEPT !.cache = LruNew(AccCapacity)] :
                        c \in QuorumSizes, k \in QuorumSizes}
    /\ last = [op |-> "new", request |-> TheRequest, sender |-> 0,
               claim |-> OwnClaimOf(1), ret |-> None]
    /\ script = [calls |-> 0]

GtCalled(request, sender, claim, r) ==
    /\ sibling' = r.s
    /\ last' = [op |-> "add_identities", request |-> request, sender |-> sender,
                claim |-> claim, ret |-> r.ret]

GtAddIdentities ==
    /\ script.calls < MaxCalls
    /\ script' = [calls |-> script.calls + 1]
    /\ \E request \in GtRequests, sender \in Names :
           GtCalled(request, sender, OwnClaimOf(sender),
                    add_identities(sibling, request, sender, OwnClaimOf(sender)))
    /\ UNCHANGED <<claim_accumulator, key_store, frequency>>

GtNext == GtAddIdentities

SpecKeySentinelMany == GtInit /\ [][GtNext]_vars

(***************************************************************************)
(* The Sentinel of sentinel.rs, which asks for keys through a callback.    *)
(* sender is the list of the sources get_signing_keys was called with.     *)
(* resolve ends in assert_eq!, which aborts the call in every build: a     *)
(* call returns its result or panics.                                      *)
(***************************************************************************)
CallbackSentinelNew(claim_threshold, keys_threshold) ==
    [sender |-> <<>>,
     claim_accumulator |->
         [AccumulatorNew(claim_threshold) EXCEPT !.storage = LruNew(AccCapacity)],
     keys_accumulator |->
         [AccumulatorNew(keys_threshold) EXCEPT !.storage = LruNew(AccCapacity)],
     claim_threshold |-> claim_threshold,
     keys_threshold |-> keys_threshold]

\* frequency.update(&key.0, &(key.1).0) for every key of a bundle
RECURSIVE UpdateWithKeys(_, _)
UpdateWithKeys(map, keys) ==
    IF keys = <<>> THEN map
    ELSE UpdateWithKeys(FrequencyKeyValueUpdate(map, Head(keys)[1], Head(keys)[2]), Tail(keys))

RECURSIVE UpdateWithSets(_, _)
UpdateWithSets(map, sets_of_keys) ==
    IF sets_of_keys = <<>> THEN map
    ELSE UpdateWithSets(UpdateWithKeys(map, Head(sets_of_keys)), Tail(sets_of_keys))

\* the public keys of an entry that keys_threshold bundles gave
KeysAtThreshold(public_keys, keys_threshold) ==
    [i \in DOMAIN SelectSeq(public_keys, LAMBDA e : e[2] >= keys_threshold) |->
        SelectSeq(public_keys, LAMBDA e : e[2] >= keys_threshold)[i][1]]

\* collect::<BTreeMap<Name, Vec<PublicKey>>>() of the entries at the threshold
FlattenedMap(sorted, keys_threshold) ==
    [name \in {sorted[i][1] : i \in {j \in DOMAIN sorted : sorted[j][3] >= keys_threshold}} |->
        KeysAtThreshold(
            sorted[CHOOSE i \in DOMAIN sorted : sorted[i][1] = name][2], keys_threshold)]

sentinel_flatten_keys(s, sets_of_keys) ==
    FlattenedMap(FrequencyKeyValueSortByHighest(
                     UpdateWithSets(FrequencyKeyValueNew, sets_of_keys)),
                 s.keys_threshold)

\* the claim verified under the first of public_keys that fits, as a list
CheckedWith(claim, public_keys) ==
    IF \E i \in DOMAIN public_keys :
           IsSome(verify_signature(claim[2], public_keys[i], claim[3]))
    THEN <<claim[3]>>
    ELSE <<>>

\* filter_map over the claims
RECURSIVE SentinelVerified(_, _)
SentinelVerified(claims, keys) ==
    IF claims = <<>> THEN <<>>
    ELSE (IF Head(claims)[1] \in DOMAIN keys
          THEN CheckedWith(Head(claims), keys[Head(claims)[1]])
          ELSE <<>>)
         \o SentinelVerified(Tail(claims), keys)

SentinelValidated(s, verified_claims) ==
    IF Len(verified_claims) >= s.claim_threshold THEN Some(verified_claims) ELSE None

sentinel_validate(s, claims, sets_of_keys) ==
    SentinelValidated(s, SentinelVerified(claims, sentinel_flatten_keys(s, sets_of_keys)))

\* frequency.update for every verified claim
RECURSIVE UpdateWithClaims(_, _)
UpdateWithClaims(map, verified_claims) ==
    IF verified_claims = <<>> THEN map
    ELSE UpdateWithClaims(FrequencyUpdate(map, Head(verified_claims)), Tail(verified_claims))

\* the claims counted claim_threshold times, most frequent first
ResolvedClaims(s, sorted) == SelectSeq(sorted, LAMBDA e : e[2] >= s.claim_threshold)

\* assert_eq!(resolved_claims.len(), 1), then the first
SentinelResolvedFirst(resolved_claims) ==
    IF Len(resolved_claims) # 1 THEN [ret |-> None, panics |-> TRUE]
    ELSE [ret |-> Some(resolved_claims[1][1]), panics |-> FALSE]

sentinel_resolve(s, verified_claims) ==
    SentinelResolvedFirst(
        ResolvedClaims(s, sort_by_highest(UpdateWithClaims(FrequencyNew, verified_claims))))

SentinelMapped(request, resolved) ==
    [ret |-> IF IsSome(resolved.ret) THEN Some(<<request, Unwrap(resolved.ret)>>) ELSE None,
     panics |-> resolved.panics]

\* the and_then chain after validate
SentinelResolved(s, request, validated) ==
    IF IsSome(validated)
    THEN SentinelMapped(request, sentinel_resolve(s, Unwrap(validated)))
    ELSE [ret |-> None, panics |-> FALSE]

\* the chain after the add of an accumulator, for the claims and bundles at hand
SentinelAdded(s, request, quorate, claims, sets_of_keys) ==
    IF quorate
    THEN SentinelResolved(s, request, sentinel_validate(s, claims, sets_of_keys))
    ELSE [ret |-> None, panics |-> FALSE]

\* add_claim, given the outcome of keys_accumulator.get and claim_accumulator.add
SentinelAddClaimWith(s, request, got, added) ==
    IF IsSome(got.ret)
    THEN [s |-> [s EXCEPT !.keys_accumulator = got.acc, !.claim_accumulator = added.acc],
          out |-> SentinelAdded(s, request, IsSome(added.ret),
                                IF IsSome(added.ret) THEN Unwrap(added.ret)[2] ELSE <<>>,
                                Unwrap(got.ret)[2])]
    ELSE [s |-> [s EXCEPT !.sender = Append(@, get_source(request)),
                          !.keys_accumulator = got.acc,
                          !.claim_accumulator = added.acc],
          out |-> [ret |-> None, panics |-> FALSE]]

sentinel_add_claim(s, request, claimant, signature, claim) ==
    SentinelAddClaimWith(s, request, AccGet(s.keys_accumulator, request),
                         AccAdd(s.claim_accumulator, request, <<claimant, signature, claim>>))

\* add_keys, given the outcome of claim_accumulator.get and keys_accumulator.add
SentinelAddKeysWith(s, request, got, added) ==
    IF IsSome(got.ret)
    THEN [s |-> [s EXCEPT !.claim_accumulator = got.acc, !.keys_accumulator = added.acc],
          out |-> SentinelAdded(s, request, IsSome(added.ret),
                                Unwrap(got.ret)[2],
                                IF IsSome(added.ret) THEN Unwrap(added.ret)[2] ELSE <<>>)]
    ELSE [s |-> [s EXCEPT !.claim_accumulator = got.acc],
          out |-> [ret |-> None, panics |-> FALSE]]

sentinel_add_keys(s, request, keys) ==
    SentinelAddKeysWith(s, request, AccGet(s.claim_accumulator, request),
                        AccAdd(s.keys_accumulator, request, keys))

(***************************************************************************)
(* The callback Sentinel on its own: any add_claim and add_keys calls for  *)
(* two Requests until a call panics.  sibling is the Sentinel, script      *)
(* counts the calls, last keeps the call and how it ended.                 *)
(***************************************************************************)
CbInit ==
    /\ claim_accumulator = PureSentinelNew.claim_accumulator
    /\ key_store = PureSentinelNew.key_store
    /\ frequency = FrequencyNew
    /\ sibling \in {CallbackSentinelNew(c, k) : c \in QuorumSizes, k \in QuorumSizes}
    /\ last = [op |-> "new", request |-> TheRequest, ret |-> None, panics |-> FALSE,
               had_keys |-> FALSE, had_claims |-> FALSE, asked |-> FALSE]
    /\ script = [calls |-> 0]

CbCalled(op, request, r) ==
    /\ ~ last.panics
    /\ script.calls < MaxCalls
    /\ script' = [calls |-> script.calls + 1]
    /\ sibling' = r.s
    /\ last' = [op |-> op, request |-> request, ret |-> r.out.ret, panics |-> r.out.panics,
                had_keys |-> contains_key(sibling.keys_accumulator, request),
                had_claims |-> contains_key(sibling.claim_accumulator, request),
                asked |-> Len(r.s.sender) > Len(sibling.sender)]
    /\ UNCHANGED <<claim_accumulator, key_store, frequency>>

CbAddClaim ==
    \E request \in Requests, c \in Submissions :
        CbCalled("add_claim", request, sentinel_add_claim(sibling, request, c[1], c[2], c[3]))

CbAddKeys ==
    \E request \in Requests, keys \in KeyBundles :
        CbCalled("add_keys", request, sentinel_add_keys(sibling, request, keys))

CbNext == CbAddClaim \/ CbAddKeys

SpecCallbackSentinel == CbInit /\ [][CbNext]_vars

(***************************************************************************)
(* Vocabulary of the properties                                            *)
(***************************************************************************)
\* key has an entry in the accumulator
Present(acc, key) == key \in DOMAIN acc.storage.map

IsResolved(ret) == IsSome(ret) /\ Unwrap(ret)[1] = "Resolved"

IsRequestKeys(ret) == IsSome(ret) /\ Unwrap(ret)[1] = "RequestKeys"

\* the senders other than target recorded for (target, key) in the KeyStore
Attesters(target, key) ==
    IF target \in DOMAIN key_store.cache.map
    THEN IF key \in DOMAIN key_store.cache.map[target]
         THEN key_store.cache.map[target][key] \ {target}
         ELSE {}
    ELSE {}

\* signature is the signature of body under the secret half of key
SignedWith(signature, key, body) == signature = Sign(key, body)

\* the submission verifies under a key that quorum other names attest
VerifiedAt(submission, quorum) ==
    \E key \in AllKeys :
        /\ Cardinality(Attesters(submission[1], key)) >= quorum
        /\ SignedWith(submission[2], key, submission[3])

\* positions of the submissions of claims that carry body and verify at quorum
Supporters(claims, body, quorum) ==
    {i \in DOMAIN claims : claims[i][3] = body /\ VerifiedAt(claims[i], quorum)}

(***************************************************************************)
(* C1: add_claim returns Resolved only if, counting the submission just    *)
(* inserted, the accumulator holds at least quorum_size submissions for    *)
(* the Request.                                                            *)
(***************************************************************************)
C1_ResolvedNeedsQuorumOfSubmissions ==
    (last.op = "add_claim" /\ IsResolved(last.ret))
        => Len(last.claims) >= last.quorum_size

C1_Witness ==
    /\ last.op = "add_claim"
    /\ IsResolved(last.ret)
    /\ last.quorum_size = 2
    /\ Len(last.claims) = 2

(***************************************************************************)
(* C2: a key is handed to signature verification for claimant N at quorum  *)
(* q only if at least q attesters other than N are recorded for (N, key),  *)
(* and only claims verified by such a key count as verified.               *)
(***************************************************************************)
C2_OnlyQuorateKeysVerify ==
    /\ \A u \in last.used : Cardinality(Attesters(u[1], u[2])) >= last.quorum_size
    /\ Len(last.verified) =
           Cardinality({i \in DOMAIN last.claims :
                            \E u \in last.used :
                                /\ u[1] = last.claims[i][1]
                                /\ SignedWith(last.claims[i][2], u[2], last.claims[i][3])})

C2_Witness ==
    /\ last.quorum_size = 2
    /\ last.used # {}
    /\ Len(last.verified) = 1
    /\ Len(last.claims) = 2

(***************************************************************************)
(* C3: an emitted resolution (R, b) at quorum q is backed by at least q    *)
(* accumulated submissions for R with body b whose signature verifies      *)
(* under a key quorate at q for its claimant.                              *)
(***************************************************************************)
C3_ResolutionBackedByVerifiedClaims ==
    IsResolved(last.ret)
        => Cardinality(Supporters(last.claims, Unwrap(last.ret)[3], last.quorum_size))
               >= last.quorum_size

C3_Witness ==
    /\ IsResolved(last.ret)
    /\ Len(last.claims) = 2
    /\ \E i \in DOMAIN last.claims : ~ VerifiedAt(last.claims[i], last.quorum_size)

(***************************************************************************)
(* C4: a Request resolves to body b at quorum q only if at least q         *)
(* distinct claimant names have a verified claim with body b.              *)
(***************************************************************************)
C4_QuorumOfDistinctClaimants ==
    IsResolved(last.ret)
        => Cardinality({last.claims[i][1] :
                            i \in Supporters(last.claims, Unwrap(last.ret)[3],
                                             last.quorum_size)})
               >= last.quorum_size

(***************************************************************************)
(* C5: add_keys for a Request that is not in the claim accumulator returns *)
(* nothing and leaves the KeyStore and the claim accumulator unchanged.    *)
(***************************************************************************)
C5_UnsolicitedKeysDropped ==
    [][(last'.op = "add_keys" /\ ~ Present(claim_accumulator, last'.request))
           => /\ last'.ret = None
              /\ key_store' = key_store
              /\ claim_accumulator' = claim_accumulator]_vars

C5_Witness ==
    /\ last.op = "add_keys"
    /\ ~ last.known
    /\ claim_accumulator.storage.list # <<>>

(***************************************************************************)
(* C6: right after a call that returns a resolution for R, R is absent     *)
(* from the claim accumulator; while R is absent add_keys for R returns    *)
(* nothing, and only an add_claim for R makes it present again.            *)
(***************************************************************************)
C6_ResolvedRequestIsGone ==
    [][/\ IsResolved(last'.ret) => ~ Present(claim_accumulator', last'.request)
       /\ \A R \in Requests :
              ~ Present(claim_accumulator, R)
                  => /\ (last'.op = "add_keys" /\ last'.request = R) => last'.ret = None
                     /\ Present(claim_accumulator', R)
                            => (last'.op = "add_claim" /\ last'.request = R)]_vars

C6_Witness ==
    /\ last.op = "add_keys"
    /\ IsResolved(last.ret)
    /\ ~ Present(claim_accumulator, last.request)

(***************************************************************************)
(* C7 as stated: every add_claim for a Request that is not in the claim    *)
(* accumulator returns RequestKeys(R.source).                              *)
(***************************************************************************)
C7_FirstSightingAlwaysRequestsKeys ==
    [][(last'.op = "add_claim" /\ ~ Present(claim_accumulator, last'.request))
           => last'.ret = Some(<<"RequestKeys", get_source(last'.request)>>)]_vars

(***************************************************************************)
(* C7 amended: an add_claim for a Request that is not in the claim         *)
(* accumulator returns RequestKeys(R.source), unless quorum_size is 1 and  *)
(* the claim verifies under a key already attested for its claimant: then  *)
(* it returns Resolved(R, body).                                           *)
(***************************************************************************)
C7_FirstSightingRequestsKeysOrResolves ==
    [][(last'.op = "add_claim" /\ ~ Present(claim_accumulator, last'.request))
           => IF last'.quorum_size = 1 /\ VerifiedAt(last'.claims[1], 1)
              THEN last'.ret = Some(<<"Resolved", last'.request, last'.claims[1][3]>>)
              ELSE last'.ret = Some(<<"RequestKeys", get_source(last'.request)>>)]_vars

C7_Witness ==
    /\ last.op = "add_claim"
    /\ ~ last.known
    /\ last.ret = Some(<<"RequestKeys", get_source(last.request)>>)
    /\ Len(claim_accumulator.storage.list) = MAX_REQUEST_COUNT
    /\ key_store.cache.list # <<>>

(***************************************************************************)
(* C8: add_claim never returns RequestKeys for a Request already present   *)
(* in the claim accumulator; a repeated add_claim that does not resolve    *)
(* returns nothing.                                                        *)
(***************************************************************************)
C8_NoRepeatedRequestKeys ==
    [][(last'.op = "add_claim" /\ Present(claim_accumulator, last'.request))
           => (last'.ret = None \/ IsResolved(last'.ret))]_vars

C8_Witness ==
    /\ last.op = "add_claim"
    /\ last.known
    /\ last.ret = None
    /\ Len(last.claims) = 2
    /\ last.claims[1] = last.claims[2]

(***************************************************************************)
(* C9 as stated: at quorum 1 on a new sentinel, after add_claim(R, C,      *)
(* sign(sk, body), body, 1) returned RequestKeys(R.source), the following  *)
(* add_keys(R, sender, [(C, pk)], 1) returns (R, body) for any sender.     *)
(***************************************************************************)
C9_OneKeyResolvesForAnySender ==
    (script.phase = "done" /\ script.quorum_size = 1)
        => /\ script.results[1] = Some(<<"RequestKeys", get_source(script.request)>>)
           /\ script.results[2] = Some(<<"Resolved", script.request, script.body>>)

(***************************************************************************)
(* C9 amended: the same, for any sender name other than the claimant C.    *)
(***************************************************************************)
C9_OneKeyResolvesForOtherSender ==
    (script.phase = "done" /\ script.quorum_size = 1)
        => /\ script.results[1] = Some(<<"RequestKeys", get_source(script.request)>>)
           /\ script.senders[1] # script.claimants[1]
                  => script.results[2] = Some(<<"Resolved", script.request, script.body>>)

C9_Witness ==
    /\ script.phase = "done"
    /\ script.quorum_size = 1
    /\ script.senders[1] # script.claimants[1]
    /\ last.op = "add_keys"
    /\ IsResolved(last.ret)

\* the results of the scripted run of C10: RequestKeys, then nothing for the
\* other q - 1 claims and the first q - 1 bundles, then the resolution
ScExpected ==
    [i \in 1..(2 * script.quorum_size) |->
        IF i = 1 THEN Some(<<"RequestKeys", get_source(script.request)>>)
        ELSE IF i = 2 * script.quorum_size
             THEN Some(<<"Resolved", script.request, script.body>>)
             ELSE None]

(***************************************************************************)
(* C10 as stated: at quorum q on a new sentinel, after q correctly signed  *)
(* claims over one body from q distinct claimants, key bundles naming all  *)
(* q claimants with their true keys from q different senders make add_keys *)
(* return nothing for the first q - 1 bundles and (R, body) on the q-th.   *)
(***************************************************************************)
C10_QuorumOfBundlesResolves ==
    script.phase = "done" => script.results = ScExpected

(***************************************************************************)
(* C10 amended: the same, when none of the q senders is one of the         *)
(* claimants.                                                              *)
(***************************************************************************)
C10_QuorumOfOutsideBundlesResolves ==
    (script.phase = "done" /\ Range(script.senders) \cap Range(script.claimants) = {})
        => script.results = ScExpected

C10_Witness ==
    /\ script.phase = "done"
    /\ script.quorum_size = 2
    /\ Range(script.senders) \cap Range(script.claimants) = {}
    /\ Len(script.results) = 4
    /\ IsResolved(script.results[4])

(***************************************************************************)
(* C11: at quorum q, when the first q bundles naming all q claimants are   *)
(* sent by the q claimants themselves, none of those add_keys calls        *)
(* resolves; one further bundle from a sender that is not a claimant       *)
(* resolves to (R, body); the identical add_keys call after that returns   *)
(* nothing.                                                                *)
(***************************************************************************)
C11_SelfAttestedBundlesNeedOutsider ==
    (/\ Len(script.senders) >= script.quorum_size
     /\ {script.senders[i] : i \in 1..script.quorum_size} = Range(script.claimants))
        => /\ \A i \in 1..script.quorum_size : script.results[script.quorum_size + i] = None
           /\ (/\ Len(script.senders) > script.quorum_size
               /\ script.senders[script.quorum_size + 1] \notin Range(script.claimants))
                  => /\ script.results[2 * script.quorum_size + 1]
                            = Some(<<"Resolved", script.request, script.body>>)
                     /\ (/\ Len(script.senders) = script.quorum_size + 2
                         /\ script.senders[script.quorum_size + 2]
                                = script.senders[script.quorum_size + 1])
                            => script.results[2 * script.quorum_size + 2] = None

C11_Witness ==
    /\ script.quorum_size = 2
    /\ Len(script.senders) = 4
    /\ {script.senders[1], script.senders[2]} = Range(script.claimants)
    /\ script.senders[3] \notin Range(script.claimants)
    /\ script.senders[4] = script.senders[3]
    /\ IsResolved(script.results[5])
    /\ script.results[6] = None

\* the senders the store holds for key of target
StoredSenders(ks, target, key) ==
    IF target \in DOMAIN ks.cache.map /\ key \in DOMAIN ks.cache.map[target]
    THEN ks.cache.map[target][key]
    ELSE {}

\* get_accumulated_keys answers alike in both stores, for every target and quorum
SameAccumulatedKeys(ks1, ks2) ==
    \A target \in Names, q \in KsQuorums :
        get_accumulated_keys(ks1, target, Some(q)).ret
            = get_accumulated_keys(ks2, target, Some(q)).ret

(***************************************************************************)
(* C12: add_key(target, attester, key) with attester = target leaves the   *)
(* store unchanged, and get_accumulated_keys answers after it as before    *)
(* it, for every target and quorum.                                        *)
(***************************************************************************)
C12_SelfAttestationIsNoOp ==
    [][(last'.op = "add_key" /\ last'.target = last'.sender)
           => /\ key_store' = key_store
              /\ SameAccumulatedKeys(key_store', key_store)]_vars

C12_Witness ==
    /\ last.op = "add_key"
    /\ last.target = last.sender
    /\ last.target \in DOMAIN key_store.cache.map
    /\ StoredSenders(key_store, last.target, last.key) # {}

(***************************************************************************)
(* C13: in every reachable state, add_key with one (target, attester, key) *)
(* twice leaves the same attester sets, and the same get_accumulated_keys  *)
(* answers for every target and quorum, as add_key with it once.           *)
(***************************************************************************)
C13_AddKeyIdempotent ==
    \A target \in Names, sender \in Names, key \in KsKeys :
        /\ add_key(add_key(key_store, target, sender, key), target, sender, key).cache.map
               = add_key(key_store, target, sender, key).cache.map
        /\ SameAccumulatedKeys(
               add_key(add_key(key_store, target, sender, key), target, sender, key),
               add_key(key_store, target, sender, key))

C13_Witness ==
    /\ last.op = "add_key"
    /\ last.target # last.sender
    /\ last.sender \in StoredSenders(key_store, last.target, last.key)
    /\ Cardinality(StoredSenders(key_store, last.target, last.key)) = 2

(***************************************************************************)
(* C14: get_accumulated_keys(target, q) returns, in ascending order and    *)
(* without repetition, exactly the keys of target that at least q senders  *)
(* are stored for, q being the store's quorum_size when none is given.     *)
(***************************************************************************)
C14_ExactlyTheQuorateKeys ==
    last.op = "get_accumulated_keys"
        => /\ \A i, j \in DOMAIN last.ret : i < j => last.ret[i] < last.ret[j]
           /\ Range(last.ret)
                  = {key \in KsKeys :
                        /\ StoredSenders(key_store, last.target, key) # {}
                        /\ Cardinality(StoredSenders(key_store, last.target, key))
                               >= (IF IsSome(last.quorum_size)
                                   THEN Unwrap(last.quorum_size)
                                   ELSE key_store.quorum_size)}

C14_Witness ==
    /\ last.op = "get_accumulated_keys"
    /\ last.quorum_size = None
    /\ key_store.quorum_size = 1
    /\ Len(last.ret) = 2

\* the values the accumulator holds for key
Stored(acc, key) == acc.storage.map[key]

\* the live keys of the accumulator
Live(acc) == DOMAIN acc.storage.map

(***************************************************************************)
(* C15: after any add, get, delete calls the accumulator holds at most its *)
(* capacity of live keys, and the key of the last add is one of them.      *)
(***************************************************************************)
C15_AtMostCapacityLiveKeys ==
    /\ Cardinality(Live(claim_accumulator)) <= claim_accumulator.storage.capacity
    /\ last.op = "add" => last.key \in Live(claim_accumulator)

C15_Witness ==
    /\ last.op = "add"
    /\ ~ last.present
    /\ last.size = claim_accumulator.storage.capacity
    /\ Cardinality(Live(claim_accumulator)) = claim_accumulator.storage.capacity

(***************************************************************************)
(* C16 as stated: add(key, value) returns (key, all values stored for key) *)
(* exactly when the number of values stored for key after the insertion is *)
(* at least the quorum, for every quorum from 0 and also for the first add *)
(* of a key, and is_quorum_reached(key) agrees with it.                    *)
(***************************************************************************)
C16_AddReturnsExactlyAtQuorum ==
    last.op = "add"
        => /\ last.ret = IF Len(Stored(claim_accumulator, last.key))
                                >= claim_accumulator.quorum
                         THEN Some(<<last.key, Stored(claim_accumulator, last.key)>>)
                         ELSE None
           /\ IsSome(last.ret) <=> is_quorum_reached(claim_accumulator, last.key).ret

(***************************************************************************)
(* C17: an add appends its value to the sequence of a present key (equal   *)
(* values included) and starts the sequence of an absent one; get of a     *)
(* present key returns the stored sequence and leaves every sequence as it *)
(* was.                                                                    *)
(***************************************************************************)
C17_GetReturnsValuesInOrderAdded ==
    [][/\ last'.op = "add"
           => Stored(claim_accumulator', last'.key)
                  = IF Present(claim_accumulator, last'.key)
                    THEN Append(Stored(claim_accumulator, last'.key), last'.value)
                    ELSE <<last'.value>>
       /\ (last'.op = "get" /\ Present(claim_accumulator, last'.key))
           => /\ last'.ret = Some(<<last'.key, Stored(claim_accumulator, last'.key)>>)
              /\ claim_accumulator'.storage.map = claim_accumulator.storage.map]_vars

C17_Witness ==
    /\ last.op = "get"
    /\ last.ret = Some(<<last.key, <<"a", "b", "a">>>>)

(***************************************************************************)
(* C18: after delete(key), key is absent (get returns nothing,             *)
(* contains_key is false) and the other entries are as before; an add of   *)
(* an absent key starts a sequence holding only the added value.           *)
(***************************************************************************)
C18_DeleteRemovesTheEntry ==
    [][/\ last'.op = "delete"
           => /\ ~ Present(claim_accumulator', last'.key)
              /\ AccGet(claim_accumulator', last'.key).ret = None
              /\ ~ contains_key(claim_accumulator', last'.key)
              /\ \A k \in Live(claim_accumulator) \ {last'.key} :
                     /\ Present(claim_accumulator', k)
                     /\ Stored(claim_accumulator', k) = Stored(claim_accumulator, k)
       /\ (last'.op = "add" /\ ~ Present(claim_accumulator, last'.key))
           => /\ Stored(claim_accumulator', last'.key) = <<last'.value>>
              /\ IsSome(last'.ret) => last'.ret = Some(<<last'.key, <<last'.value>>>>)]_vars

C18_Witness ==
    /\ last.op = "delete"
    /\ last.present
    /\ Live(claim_accumulator) # {}

\* the live key passed least recently to add, get or is_quorum_reached
LeastRecentlyUsed(order, live) ==
    order[CHOOSE i \in DOMAIN order :
              /\ order[i] \in live
              /\ \A j \in 1..(i - 1) : order[j] \notin live]

(***************************************************************************)
(* C19: an add of an absent key to an accumulator at capacity removes      *)
(* exactly one entry, the one least recently used by add or get            *)
(* (contains_key is no use), and every other entry keeps its values.       *)
(***************************************************************************)
C19_EvictsLeastRecentlyUsed ==
    [][(/\ last'.op = "add"
        /\ ~ Present(claim_accumulator, last'.key)
        /\ Cardinality(Live(claim_accumulator)) = claim_accumulator.storage.capacity)
           => /\ Live(claim_accumulator')
                     = (Live(claim_accumulator)
                            \ {LeastRecentlyUsed(script, Live(claim_accumulator))})
                        \cup {last'.key}
              /\ \A k \in Live(claim_accumulator)
                              \ {LeastRecentlyUsed(script, Live(claim_accumulator))} :
                     Stored(claim_accumulator', k) = Stored(claim_accumulator, k)]_vars

C19_Witness ==
    /\ last.op = "add"
    /\ ~ last.present
    /\ last.size = claim_accumulator.storage.capacity
    /\ Len(script) = 3
    /\ script[1] \notin Live(claim_accumulator)
    /\ script[2] \in Live(claim_accumulator)
    /\ Len(Stored(claim_accumulator, script[2])) = 2

\* the last call ran on a split vote: at least quorum_size of the accumulated
\* claims verify, and no body is carried by quorum_size of the verified ones
SplitVote ==
    /\ last.op \in {"add_claim", "add_keys"}
    /\ Cardinality({i \in DOMAIN last.claims :
                       VerifiedAt(last.claims[i], last.quorum_size)}) >= last.quorum_size
    /\ \A body \in Bodies :
           Cardinality(Supporters(last.claims, body, last.quorum_size)) < last.quorum_size

Count(seq, v) == Cardinality({i \in DOMAIN seq : seq[i] = v})

\* the first position of v in seq
FirstAt(seq, v) == CHOOSE i \in DOMAIN seq : seq[i] = v /\ \A j \in 1..(i - 1) : seq[j] # v

C22_RequestsIndependent ==
    last.op \in {"add_claim", "add_keys"} => last.ret = last.ret_other

(***************************************************************************)
(* C23: sort_by_highest returns each distinct value passed to update       *)
(* exactly once, with the number of update calls made with it, in          *)
(* non-increasing order of that number.                                    *)
(***************************************************************************)
C23_CountsEveryValueOnce ==
    last.op = "sort_by_highest"
        => /\ {last.ret[i][1] : i \in DOMAIN last.ret} = Range(script)
           /\ Len(last.ret) = Cardinality(Range(script))
           /\ \A i \in DOMAIN last.ret : last.ret[i][2] = Count(script, last.ret[i][1])
           /\ \A i, j \in DOMAIN last.ret : i < j => last.ret[i][2] >= last.ret[j][2]

C23_Witness ==
    /\ last.op = "sort_by_highest"
    /\ script = <<"x", "y", "y", "z">>
    /\ last.ret = <<<<"y", 2>>, <<"x", 1>>, <<"z", 1>>>>

(***************************************************************************)
(* C24 as stated: in the result of sort_by_highest, values of equal count  *)
(* come in the order of their first update, after any interleaving of      *)
(* update and sort_by_highest calls on the counter.                        *)
(***************************************************************************)
C24_TiesInOrderOfFirstUpdate ==
    last.op = "sort_by_highest"
        => \A i, j \in DOMAIN last.ret :
               (i < j /\ last.ret[i][2] = last.ret[j][2])
                   => FirstAt(script, last.ret[i][1]) < FirstAt(script, last.ret[j][1])

\* the values passed to update together with key, in the order of the calls
ValuesOf(updates, key) ==
    [i \in 1..Count([j \in DOMAIN updates |-> updates[j][1]], key) |->
        updates[CHOOSE j \in DOMAIN updates :
                    /\ updates[j][1] = key
                    /\ Cardinality({k \in 1..j : updates[k][1] = key}) = i][2]]

(***************************************************************************)
(* C25: FrequencyKeyValue's sort_by_highest returns each key passed to     *)
(* update once, with each value passed with it once and the number of      *)
(* updates made with that key and value; the third component is the        *)
(* highest of those numbers, and the entries are in non-increasing order   *)
(* of it.                                                                  *)
(***************************************************************************)
C25_KeysWithValueCountsAndMaximum ==
    last.op = "sort_by_highest"
        => /\ {last.ret[i][1] : i \in DOMAIN last.ret} = {script[j][1] : j \in DOMAIN script}
           /\ Len(last.ret) = Cardinality({script[j][1] : j \in DOMAIN script})
           /\ \A i \in DOMAIN last.ret :
                  /\ {last.ret[i][2][n][1] : n \in DOMAIN last.ret[i][2]}
                         = Range(ValuesOf(script, last.ret[i][1]))
                  /\ Len(last.ret[i][2])
                         = Cardinality(Range(ValuesOf(script, last.ret[i][1])))
                  /\ \A n \in DOMAIN last.ret[i][2] :
                         /\ last.ret[i][2][n][2]
                                = Count(script, <<last.ret[i][1], last.ret[i][2][n][1]>>)
                         /\ last.ret[i][2][n][2] <= last.ret[i][3]
                  /\ \E n \in DOMAIN last.ret[i][2] : last.ret[i][2][n][2] = last.ret[i][3]
           /\ \A i, j \in DOMAIN last.ret : i < j => last.ret[i][3] >= last.ret[j][3]

C25_Witness ==
    /\ last.op = "sort_by_highest"
    /\ script = <<<<1, "a">>, <<2, "b">>, <<2, "a">>, <<2, "b">>>>
    /\ last.ret = <<<<2, <<<<"b", 2>>, <<"a", 1>>>>, 2>>, <<1, <<<<"a", 1>>>>, 1>>>>


(***************************************************************************)
(* C26  Median aggregator: once at least claim_threshold claims from       *)
(* distinct names have been submitted for a Request, with keys supplied,   *)
(* add_mergeable_claim emits the median of the claims, the element at      *)
(* index floor(n/2) of the claims sorted ascending.  The code never emits: *)
(* flatten_keys returns no key and check_signature verifies nothing.       *)
(***************************************************************************)
\* the mergeable claims stored for TheRequest, as (name, signature, claim)
MergeableClaims ==
    IF LruCheck(sibling.mergeable_claim_accumulator.storage, TheRequest)
    THEN sibling.mergeable_claim_accumulator.storage.map[TheRequest]
    ELSE <<>>

\* the key bundles stored for TheRequest
SuppliedKeys ==
    IF LruCheck(sibling.keys_accumulator.storage, TheRequest)
    THEN sibling.keys_accumulator.storage.map[TheRequest]
    ELSE <<>>

\* enough claims from distinct names are in, and enough bundles that name
\* every claimant with its true key
MedianDue ==
    /\ last.op = "add_mergeable_claim"
    /\ sibling.claim_threshold >= 1
    /\ Len(MergeableClaims) >= sibling.claim_threshold
    /\ \A i, j \in DOMAIN MergeableClaims :
           MergeableClaims[i][1] = MergeableClaims[j][1] => i = j
    /\ Len(SuppliedKeys) >= Max(sibling.keys_threshold, 1)
    /\ \A b \in DOMAIN SuppliedKeys : \A i \in DOMAIN MergeableClaims :
           <<MergeableClaims[i][1], PublicKeyOf(MergeableClaims[i][1])>>
               \in Range(SuppliedKeys[b])

MedianOf(claims) ==
    SortAscending([i \in DOMAIN claims |-> claims[i][3]])[(Len(claims) \div 2) + 1]

C26_EmitsMedianAtThreshold ==
    MedianDue => last.ret = Some(<<TheRequest, MedianOf(MergeableClaims)>>)


(***************************************************************************)
(* C27  KeySentinel.add_identities: the result, when present, is the list  *)
(* of the identities whose count of distinct vouching senders reached      *)
(* keys_threshold, ordered by descending vouch count, and a result is      *)
(* returned if and only if at least claim_threshold identities reached     *)
(* keys_threshold.  The code returns the identities of the verified        *)
(* claims, as often as they are claimed, once claim_threshold claims       *)
(* verify.                                                                 *)
(***************************************************************************)
\* the senders that vouched for the identity, in the key store of the call
Vouchers(id) ==
    IF LruCheck(last.keys.cache, id[1])
    THEN SendersOf(last.keys.cache.map[id[1]], id[2])
    ELSE {}

\* the identities that keys_threshold distinct senders vouched for
VouchedIdentities ==
    {id \in Names \X AllKeys :
         Vouchers(id) # {} /\ Cardinality(Vouchers(id)) >= sibling.keys_threshold}

ByDescendingVouchCount(ids) ==
    /\ Range(ids) = VouchedIdentities
    /\ \A i, j \in DOMAIN ids :
           /\ i # j => ids[i] # ids[j]
           /\ i < j => Cardinality(Vouchers(ids[i])) >= Cardinality(Vouchers(ids[j]))

C27_ResultIsTheVouchedIdentities ==
    last.op = "add_identities" =>
        /\ IsSome(last.ret) <=> Cardinality(VouchedIdentities) >= sibling.claim_threshold
        /\ IsSome(last.ret) => ByDescendingVouchCount(Unwrap(last.ret)[2])


(***************************************************************************)
(* C28  KeySentinel.add_identities returns nothing as long as fewer than   *)
(* claim_threshold senders have a submitted group claim that verifies      *)
(* under a key of that sender attested by at least keys_threshold other    *)
(* senders for the same Request; the first call after which that holds     *)
(* returns a result.  As stated it fails when two senders' claims are the  *)
(* same claim; it holds for the number of distinct claims picked, one per  *)
(* sender.                                                                 *)
(***************************************************************************)
\* claim verifies under a key of name that enough other senders attested
VerifiesFor(name, claim) ==
    \E key \in AllKeys :
        /\ Cardinality(Vouchers(<<name, key>>) \ {name}) >= sibling.keys_threshold
        /\ claim.signature = Sign(key, claim.serialised_message)

\* the senders that have submitted a claim that verifies for them
VerifyingSenders ==
    {name \in DOMAIN last.claims : \E claim \in last.claims[name] : VerifiesFor(name, claim)}

\* the first, in the claims' order, of name's claims that verify for it
PickedClaim(name) ==
    CHOOSE claim \in last.claims[name] :
        /\ VerifiesFor(name, claim)
        /\ \A other \in last.claims[name] :
               VerifiesFor(name, other) =>
                   \E i, j \in DOMAIN GroupClaimList :
                       i <= j /\ GroupClaimList[i] = claim /\ GroupClaimList[j] = other

PickedClaims == {PickedClaim(name) : name \in VerifyingSenders}

C28_ResultIffQuorumOfVerifyingSenders ==
    last.op = "add_identities" =>
        (IsSome(last.ret) <=> Cardinality(VerifyingSenders) >= sibling.claim_threshold)

C28_ResultIffQuorumOfDistinctPickedClaims ==
    last.op = "add_identities" =>
        /\ Cardinality(VerifyingSenders) < sibling.claim_threshold => last.ret = None
        /\ IsSome(last.ret) <=> Cardinality(PickedClaims) >= sibling.claim_threshold

\* two senders verify with one and the same claim, and nothing is returned
C28_Witness ==
    /\ last.op = "add_identities"
    /\ sibling.claim_threshold = 2
    /\ Cardinality(VerifyingSenders) = 2
    /\ Cardinality(PickedClaims) = 1
    /\ last.ret = None

C30_KeysRequestedOncePerRequest ==
    last.op = "add_claim" =>
        (last.asked <=> ~ last.had_keys /\ ~ last.had_claims)


(***************************************************************************)
(* C31  Callback Sentinel: add_claim and add_keys return the request with  *)
(* the claim when the call leads to resolution and None in every other     *)
(* case, also when claim_threshold claims verify but no body, or more than *)
(* one body, occurs claim_threshold times; no call aborts.  The assert_eq! *)
(* of resolve aborts exactly those calls.                                  *)
(***************************************************************************)
C31_EveryCallReturns ==
    last.op \in {"add_claim", "add_keys"} => ~ last.panics


(***************************************************************************)
(* C32  PureSentinel: if, after the insertions of a call add_keys(R, .., q) *)
(* or add_claim(R, .., q), R holds at least q verified claims with one     *)
(* byte-equal body, that same call returns the resolution for R: the keys  *)
(* of the bundle are all recorded before the claims are verified again.    *)
(***************************************************************************)
C32_QuorumAfterInsertionsResolves ==
    (/\ last.op \in {"add_claim", "add_keys"}
     /\ \E body \in Bodies :
            Cardinality(Supporters(last.claims, body, last.quorum_size))
                >= last.quorum_size)
        => IsResolved(last.ret) /\ Unwrap(last.ret)[2] = last.request

\* an add_keys call at quorum 2 whose bundle names both claimants resolves
C32_Witness ==
    /\ last.op = "add_keys"
    /\ last.quorum_size = 2
    /\ Len(last.claims) = 2
    /\ last.claims[1][1] # last.claims[2][1]
    /\ Len(last.verified) = 2
    /\ IsResolved(last.ret)


(***************************************************************************)
(* C33  PureSentinel verify: each accumulated submission contributes at    *)
(* most one verified body per resolve, however many quorate keys its       *)
(* claimant has; the verified bodies are the bodies of the submissions     *)
(* that verify, in order, and never more than the submissions accumulated  *)
(* for the Request.                                                        *)
(***************************************************************************)
\* the bodies of the submissions
BodiesOf(claims) == [i \in DOMAIN claims |-> claims[i][3]]

\* the keys of name that quorum other names attest
QuorateKeys(name, quorum) ==
    {key \in AllKeys : Attesters(name, key) # {} /\ Cardinality(Attesters(name, key)) >= quorum}

C34_AddKeysAppliesItsOwnQuorum ==
    last.op = "add_keys" =>
        (IsResolved(last.ret)
             <=> \E body \in Bodies :
                     Cardinality(Supporters(last.claims, body, last.quorum_size))
                         >= last.quorum_size)

\* add_keys resolves at quorum 1 one claim that came with add_claim at quorum 2
C34_Witness ==
    /\ last.op = "add_keys"
    /\ last.quorum_size = 1
    /\ claim_accumulator.quorum = 2
    /\ Len(last.claims) = 1
    /\ IsResolved(last.ret)


(***************************************************************************)
(* C35  PureSentinel: a resolution of R removes exactly R's entry from the *)
(* claim accumulator and leaves the claims of every other Request and the  *)
(* attestations of the KeyStore as they are; the attestations outlive the  *)
(* Request they came with, so a later Request whose claimant has a quorate *)
(* key resolves inside add_claim.  Stated for the second sentinel of the   *)
(* two runs, which holds two Requests.                                     *)
(***************************************************************************)
\* the Request of the last call
TwoTarget ==
    IF last.op \in {"other add_claim", "other add_keys"} THEN OtherRequest ELSE TheRequest

OtherOf(request) == IF request = TheRequest THEN OtherRequest ELSE TheRequest

\* the claims the sentinel holds for request, as an Option
ClaimsHeld(ps, request) ==
    IF Present(ps.claim_accumulator, request)
    THEN Some(ps.claim_accumulator.storage.map[request])
    ELSE None

\* the (target, key, sender) attestations the sentinel holds
AttestationsOf(ps) ==
    {a \in Names \X AllKeys \X Names :
         /\ a[1] \in DOMAIN ps.key_store.cache.map
         /\ a[2] \in DOMAIN ps.key_store.cache.map[a[1]]
         /\ a[3] \in ps.key_store.cache.map[a[1]][a[2]]}

C35_ResolutionRemovesOnlyItsRequest ==
    [][IsResolved(last'.ret_other) =>
           /\ ClaimsHeld(sibling', TwoTarget') = None
           /\ ClaimsHeld(sibling', OtherOf(TwoTarget')) = ClaimsHeld(sibling, OtherOf(TwoTarget'))
           /\ AttestationsOf(sibling) \subseteq AttestationsOf(sibling')
           /\ last'.op \in {"add_claim", "other add_claim"}
                  => AttestationsOf(sibling') = AttestationsOf(sibling)]_vars

\* the other Request resolves inside add_claim while the first one is held
C35_Witness ==
    /\ last.op = "other add_claim"
    /\ IsResolved(last.ret_other)
    /\ IsSome(ClaimsHeld(sibling, TheRequest))
    /\ AttestationsOf(sibling) # {}


(***************************************************************************)
(* C36  PureSentinel: a call that does not resolve changes only what it    *)
(* was given: a non-resolving add_claim(R, ..) appends exactly one         *)
(* submission to R's sequence and leaves the attestations of the KeyStore  *)
(* unchanged; a non-resolving add_keys(R, ..) leaves every Request's claim *)
(* sequence unchanged and adds to the KeyStore only attestations of one    *)
(* sender for (target, key) pairs of one bundle.                           *)
(***************************************************************************)
\* the claims held for request, the empty sequence when it is not held
SequenceOf(ps, request) ==
    IF Present(ps.claim_accumulator, request)
    THEN ps.claim_accumulator.storage.map[request]
    ELSE <<>>

Accumulated(ks, target, q) == Range(get_accumulated_keys(ks, target, Some(q)).ret)

\* target is in the store before the step and not after it
Evicted(target) ==
    /\ target \in DOMAIN key_store.cache.map
    /\ target \notin DOMAIN key_store'.cache.map

C37_AccumulatedKeysGrow ==
    [][/\ last'.op = "add_key" =>
              \A target \in Names, q \in KsQuorums :
                  ~ Evicted(target) =>
                      /\ Accumulated(key_store, target, q)
                             \subseteq Accumulated(key_store', target, q)
                      /\ target # last'.target =>
                             Accumulated(key_store', target, q)
                                 = Accumulated(key_store, target, q)
       /\ \A target \in Names, q1 \in KsQuorums, q2 \in KsQuorums :
              q1 <= q2 => Accumulated(key_store', target, q2)
                              \subseteq Accumulated(key_store', target, q1)]_vars

\* a second sender brings a key to quorum 2 in a full store
C37_Witness ==
    /\ last.op = "add_key"
    /\ last.target # last.sender
    /\ Cardinality(StoredSenders(key_store, last.target, last.key)) = 2
    /\ LruLen(key_store.cache) = KsCapacity
    /\ Accumulated(key_store, last.target, 2) = {last.key}


(***************************************************************************)
(* C38  KeyStore: after any add_key calls the store holds attestations for *)
(* at most its capacity of targets (NAME_CAPACITY, here KsCapacity);       *)
(* add_key of a new target to a full store drops the least recently used   *)
(* target with all its keys and attester sets, and the keys of that target *)
(* are no longer returned at any quorum.                                   *)
(***************************************************************************)
\* the stored target whose last use is the oldest
LeastRecentlyUsedTarget ==
    script[CHOOSE i \in DOMAIN script :
               /\ script[i] \in DOMAIN key_store.cache.map
               /\ \A j \in 1..(i - 1) : script[j] \notin DOMAIN key_store.cache.map]

C38_FullStoreDropsLeastRecentlyUsed ==
    [][/\ Cardinality(DOMAIN key_store'.cache.map) <= KsCapacity
       /\ (/\ last'.op = "add_key"
           /\ last'.target # last'.sender
           /\ last'.target \notin DOMAIN key_store.cache.map
           /\ Cardinality(DOMAIN key_store.cache.map) = KsCapacity)
              => /\ DOMAIN key_store'.cache.map
                        = (DOMAIN key_store.cache.map \ {LeastRecentlyUsedTarget})
                              \cup {last'.target}
                 /\ \A q \in KsQuorums :
                        Accumulated(key_store', LeastRecentlyUsedTarget, q) = {}]_vars

\* a new target came into a full store and a target used before is gone
C38_Witness ==
    /\ last.op = "add_key"
    /\ last.target \in DOMAIN key_store.cache.map
    /\ DOMAIN key_store.cache.map[last.target] = {last.key}
    /\ StoredSenders(key_store, last.target, last.key) = {last.sender}
    /\ Cardinality(DOMAIN key_store.cache.map) = KsCapacity
    /\ \E target \in Range(script) : target \notin DOMAIN key_store.cache.map


(***************************************************************************)
(* C39  KeySentinel keeps one KeyStore and one claim map per Request:      *)
(* what add_identities returns for a Request, and the entry it leaves for  *)
(* it, are those of a KeySentinel that holds that Request alone, the       *)
(* entries of the other Requests are not changed by the call, and the      *)
(* number of Requests held never exceeds the capacity of the cache         *)
(* (MAX_REQUEST_COUNT, here AccCapacity).                                  *)
(***************************************************************************)
\* the entry the KeySentinel holds for request, as an Option
EntryOf(s, request) ==
    IF LruCheck(s.cache, request) THEN Some(s.cache.map[request]) ELSE None

\* the KeySentinel with the entry of request and no other
Alone(s, request) ==
    [s EXCEPT !.cache =
         IF LruCheck(s.cache, request)
         THEN LruPut(LruNew(s.cache.capacity), request, s.cache.map[request])
         ELSE LruNew(s.cache.capacity)]

C39_RequestsCountApart ==
    [][/\ Cardinality(DOMAIN sibling'.cache.map) <= AccCapacity
       /\ last'.ret = add_identities(Alone(sibling, last'.request), last'.request,
                                     last'.sender, last'.claim).ret
       /\ EntryOf(sibling', last'.request)
              = EntryOf(add_identities(Alone(sibling, last'.request), last'.request,
                                       last'.sender, last'.claim).s,
                        last'.request)
       /\ \A request \in GtRequests \ {last'.request} :
              LruCheck(sibling'.cache, request)
                  => EntryOf(sibling', request) = EntryOf(sibling, request)]_vars

\* a Request gets its result while another Request with claims stays held
C39_Witness ==
    /\ last.op = "add_identities"
    /\ IsSome(last.ret)
    /\ \E request \in GtRequests \ {last.request} :
           /\ LruCheck(sibling.cache, request)
           /\ sibling.cache.map[request].claims # EmptyMap

====
